---- MODULE Spec2Model ----
(***************************************************************************)
(* The storage core of the URL shortener: the three backends of            *)
(* internal/storage (InMemoryStorage, FileStorage, DatabaseStorage), and    *)
(* the file-storage wiring of cmd/shortener/main.go with its checkpoint.   *)
(***************************************************************************)
EXTENDS Integers, Sequences, FiniteSets, TLC

\* ------------------------------------------------------------- bounds
NumCodes == 2
MaxBatch == 2
MaxJournal == 2
NumProcs == 2
DeleteChCap == 2
MaxTasks == 3
MaxLines == 3

\* -------------------------------------------------------------- inputs
\* generateShortID draws 8 symbols at random: any code may come out, one
\* that is already in use included.
Codes == 1..NumCodes
URLs == {"u1", "u2"}
Owners == {"o1", "o2"}
Procs == 1..NumProcs
\* The shortIDs of a delete request: any codes, stored or not, each once.
Batches ==
    {b \in UNION {[1..n -> Codes] : n \in 0..MaxBatch} :
        \A i, j \in DOMAIN b : i < j => b[i] < b[j]}

VARIABLES
    backend,   \* which storage.* type app.New chose as the store
    urls,      \* InMemoryStorage.urls / FileStorage.urls / committed rows of table urls
    journal,   \* the lines of the file at FileStorage.filePath
    synced,    \* how many of those lines have reached stable storage
    memUrls,   \* main.go: the InMemoryStorage handed to LoadAllToMemory / SaveAllFromMemory
    proc,      \* DatabaseStorage.CreateShortURL: each caller's position and locals
    firstRet,  \* history: the code the first create of each URL to return on the
               \* relational store returned
    last,      \* history: the operation that just returned, with its result
    deleteCh,  \* URLService.deleteCh: the buffered tasks, oldest first
    closed,    \* URLService.closeCh has been closed
    worker,    \* URLService.deleteWorker: its position and the task it holds
    accepted,  \* history: how many times DeleteURLs has returned nil
    applied,   \* history: how many tasks the worker has passed to DeleteUserURLs
    mu,        \* InMemoryStorage.mu / FileStorage.mu, a sync.RWMutex
    randGen    \* package storage's randGen: the values Intn returns next

svcVars == <<deleteCh, closed, worker, accepted, applied>>

vars == <<backend, urls, journal, synced, memUrls, proc, firstRet, last, svcVars,
          mu, randGen>>

\* ------------------------------------------------------------ records
\* storage.URLPair
URLPair(uuid, shortURL, originalURL, userID, deleted) ==
    [UUID |-> uuid, ShortURL |-> shortURL, OriginalURL |-> originalURL,
     UserID |-> userID, DeletedFlag |-> deleted]

EmptyMap == [c \in {} |-> URLPair("", 0, "", "", FALSE)]

\* The zero value of sync.RWMutex: w is the writer holding it (0: none), r the
\* set of readers holding it.
NewRWMutex == [w |-> 0, r |-> {}]

NoLast ==
    [op |-> "none", userID |-> "", originalURL |-> "", shortIDs |-> <<>>,
     shortID |-> 0, err |-> "nil"]

IdleProc ==
    [pc |-> "idle", userID |-> "", originalURL |-> "", candidateShortID |-> 0,
     existingShortID |-> 0]

NoFirst == [u \in URLs |-> 0]

\* A createShortURL that has returned (shortID, err).
Returned(originalURL, shortID, err) ==
    [NoLast EXCEPT !.op = "create", !.originalURL = originalURL,
                   !.shortID = shortID, !.err = err]

NoteFirst(originalURL, shortID) ==
    IF firstRet[originalURL] = 0
    THEN [firstRet EXCEPT ![originalURL] = shortID]
    ELSE firstRet

\* ------------------------------------------------- the in-memory index
\* A store that keeps what the key already held (a faulty variant of MapStore).
MapStore_KeepOld(m, shortID, pair) == m @@ (shortID :> pair)

\* s.urls[shortID] = URLPair{...}: a Go map store, replacing what the key held.
MapStore(m, shortID, pair) == (shortID :> pair) @@ m

\* The loop without its owner test (a faulty variant of DeleteLoop).
RECURSIVE DeleteLoop_AnyOwner(_, _, _)
DeleteLoop_AnyOwner(m, userID, shortIDs) ==
    IF shortIDs = <<>> THEN m
    ELSE LET shortID == Head(shortIDs)
             m1 == IF shortID \in DOMAIN m
                   THEN [m EXCEPT ![shortID].DeletedFlag = TRUE]
                   ELSE m
         IN DeleteLoop_AnyOwner(m1, userID, Tail(shortIDs))

\* A loop that removes the entry from the map (a faulty variant of DeleteLoop).
RECURSIVE DeleteLoop_Erase(_, _, _)
DeleteLoop_Erase(m, userID, shortIDs) ==
    IF shortIDs = <<>> THEN m
    ELSE LET shortID == Head(shortIDs)
             m1 == IF shortID \in DOMAIN m /\ m[shortID].UserID = userID
                   THEN [c \in DOMAIN m \ {shortID} |-> m[c]]
                   ELSE m
         IN DeleteLoop_Erase(m1, userID, Tail(shortIDs))

\* A loop that flips the flag of each owned code it visits (a faulty variant of
\* DeleteLoop).
RECURSIVE DeleteLoop_Toggle(_, _, _)
DeleteLoop_Toggle(m, userID, shortIDs) ==
    IF shortIDs = <<>> THEN m
    ELSE LET shortID == Head(shortIDs)
         IN IF shortID \in DOMAIN m /\ m[shortID].UserID = userID
            THEN DeleteLoop_Toggle([m EXCEPT ![shortID].DeletedFlag = ~m[shortID].DeletedFlag],
                                   userID, Tail(shortIDs))
            ELSE DeleteLoop_Toggle(m, userID, Tail(shortIDs))

\* The loop of InMemoryStorage.DeleteUserURLs and FileStorage.DeleteUserURLs.
RECURSIVE DeleteLoop(_, _, _)
DeleteLoop(m, userID, shortIDs) ==
    IF shortIDs = <<>> THEN m
    ELSE LET shortID == Head(shortIDs)
             m1 == IF shortID \in DOMAIN m /\ m[shortID].UserID = userID
                   THEN [m EXCEPT ![shortID].DeletedFlag = TRUE]
                   ELSE m
         IN DeleteLoop(m1, userID, Tail(shortIDs))

\* InMemoryStorage.GetOriginalURL and FileStorage.GetOriginalURL: (string, error).
MapGetOriginalURL(m, shortID) ==
    IF shortID \notin DOMAIN m THEN [url |-> "", err |-> "nil"]
    ELSE IF m[shortID].DeletedFlag THEN [url |-> "", err |-> "ErrURLDeleted"]
    ELSE [url |-> m[shortID].OriginalURL, err |-> "nil"]

\* The listing without its DeletedFlag test (a faulty variant of MapGetURLsByUserID).
MapGetURLsByUserID_NoFilter(m, userID) ==
    {m[c] : c \in {d \in DOMAIN m : m[d].UserID = userID}}

\* InMemoryStorage.GetURLsByUserID and FileStorage.GetURLsByUserID: the slice,
\* whose order is the map's iteration order, as a set.
MapGetURLsByUserID(m, userID) ==
    {m[c] : c \in {d \in DOMAIN m : m[d].UserID = userID /\ ~m[d].DeletedFlag}}

\* ------------------------------------------------------ InMemoryStorage
InMemoryStorage_CreateShortURL(userID, originalURL, shortID) ==
    /\ backend = "Memory"
    /\ urls' = MapStore(urls, shortID, URLPair("", shortID, originalURL, userID, FALSE))
    /\ last' = Returned(originalURL, shortID, "nil")
    /\ UNCHANGED <<mu, randGen, svcVars, backend, journal, synced, memUrls, proc, firstRet>>

InMemoryStorage_DeleteUserURLs(userID, shortIDs) ==
    /\ backend = "Memory"
    /\ urls' = DeleteLoop(urls, userID, shortIDs)
    /\ last' = [NoLast EXCEPT !.op = "delete", !.userID = userID, !.shortIDs = shortIDs]
    /\ UNCHANGED <<mu, randGen, svcVars, backend, journal, synced, memUrls, proc, firstRet>>

\* ---------------------------------------------------------- FileStorage
\* json.NewEncoder(file).Encode(pair): the journal line. DeletedFlag is tagged
\* json:"-" and is not written.
Encode(pair) ==
    [id |-> pair.UUID, short_url |-> pair.ShortURL,
     original_url |-> pair.OriginalURL, user_id |-> pair.UserID]

\* json.Unmarshal into a fresh URLPair: DeletedFlag keeps its zero value.
Unmarshal(line) ==
    URLPair(line.id, line.short_url, line.original_url, line.user_id, FALSE)

\* Lines of the file that are not an encoded URLPair: one that json.Unmarshal
\* rejects (a torn or foreign line), and one longer than the scanner's buffer
\* (bufio.MaxScanTokenSize), at which scanner.Scan() stops with ErrTooLong.
BadJSON == [raw |-> "not JSON"]
OverLong == [raw |-> "too long"]
UnmarshalFails(line) == "raw" \in DOMAIN line /\ line = BadJSON
ScanStops(line) == "raw" \in DOMAIN line /\ line = OverLong

\* scanner.Err() after the loop.
scannerErr(lines) ==
    IF \E i \in DOMAIN lines : ScanStops(lines[i]) THEN "ErrTooLong" ELSE "nil"

\* A loop that ends at the first line json.Unmarshal rejects (a faulty variant
\* of loadFromFile).
RECURSIVE loadFromFile_Break(_, _)
loadFromFile_Break(m, lines) ==
    IF lines = <<>> \/ ScanStops(Head(lines)) \/ UnmarshalFails(Head(lines)) THEN m
    ELSE LET pair == Unmarshal(Head(lines))
         IN loadFromFile_Break(MapStore(m, pair.ShortURL, pair), Tail(lines))

\* FileStorage.loadFromFile: the scanner's loop over the lines, in file order;
\* a line json.Unmarshal rejects is logged and skipped.
RECURSIVE loadFromFile(_, _)
loadFromFile(m, lines) ==
    IF lines = <<>> \/ ScanStops(Head(lines)) THEN m
    ELSE IF UnmarshalFails(Head(lines)) THEN loadFromFile(m, Tail(lines))
    ELSE LET pair == Unmarshal(Head(lines))
         IN loadFromFile(MapStore(m, pair.ShortURL, pair), Tail(lines))

\* FileStorage.appendToFile: the UUID is set and the pair is encoded at the end
\* of the file. Nothing forces the line to stable storage before the file is closed.
appendToFile(pair) ==
    /\ journal' = Append(journal, Encode(pair))
    /\ synced' = synced

\* A create that stores the pair before it appends the line (a faulty variant
\* of FileStorage_CreateShortURL).
FileStorage_CreateShortURL_StoreFirst(userID, originalURL, shortID, written) ==
    /\ backend = "File"
    /\ LET pair == URLPair("uuid", shortID, originalURL, userID, FALSE)
       IN /\ urls' = MapStore(urls, shortID, pair)
          /\ IF written
             THEN /\ Len(journal) < MaxJournal
                  /\ appendToFile(pair)
                  /\ last' = Returned(originalURL, shortID, "nil")
             ELSE /\ last' = Returned(originalURL, 0, "error")
                  /\ UNCHANGED <<journal, synced>>
    /\ UNCHANGED <<mu, randGen, svcVars, backend, memUrls, proc, firstRet>>

\* FileStorage.CreateShortURL; written = FALSE is appendToFile returning an error.
FileStorage_CreateShortURL(userID, originalURL, shortID, written) ==
    /\ backend = "File"
    /\ LET pair == URLPair("uuid", shortID, originalURL, userID, FALSE)
       IN IF written
          THEN /\ Len(journal) < MaxJournal
               /\ appendToFile(pair)
               /\ urls' = MapStore(urls, shortID, pair)
               /\ last' = Returned(originalURL, shortID, "nil")
          ELSE /\ last' = Returned(originalURL, 0, "error")
               /\ UNCHANGED <<urls, journal, synced>>
    /\ UNCHANGED <<mu, randGen, svcVars, backend, memUrls, proc, firstRet>>

FileStorage_DeleteUserURLs(userID, shortIDs) ==
    /\ backend = "File"
    /\ urls' = DeleteLoop(urls, userID, shortIDs)
    /\ last' = [NoLast EXCEPT !.op = "delete", !.userID = userID, !.shortIDs = shortIDs]
    /\ UNCHANGED <<mu, randGen, svcVars, backend, journal, synced, memUrls, proc, firstRet>>

\* The process ends and app.New runs again: NewFileStorage replays the file.
\* When loadFromFile returns the scanner's error NewFileStorage returns no
\* store and app.New fails.
NewFileStorage ==
    /\ backend = "File"
    /\ urls' = IF scannerErr(journal) = "nil" THEN loadFromFile(EmptyMap, journal)
               ELSE EmptyMap
    /\ last' = [NoLast EXCEPT !.op = "restart", !.err = scannerErr(journal)]
    /\ UNCHANGED <<mu, randGen, svcVars, backend, journal, synced, memUrls, proc, firstRet>>

\* The operating system writes the file's dirty pages back.
Writeback ==
    /\ backend = "File"
    /\ synced < Len(journal)
    /\ synced' = Len(journal)
    /\ last' = NoLast
    /\ UNCHANGED <<mu, randGen, svcVars, backend, urls, journal, memUrls, proc, firstRet>>

\* The machine loses power: the lines that never reached stable storage are
\* gone, and the next start replays what is left.
PowerLoss ==
    /\ backend = "File"
    /\ journal' = SubSeq(journal, 1, synced)
    /\ urls' = loadFromFile(EmptyMap, journal')
    /\ last' = [NoLast EXCEPT !.op = "crash"]
    /\ UNCHANGED <<mu, randGen, svcVars, backend, synced, memUrls, proc, firstRet>>

\* ------------------------------------------------------ DatabaseStorage
\* Table urls(short_url PRIMARY KEY, original_url UNIQUE, user_id, is_deleted):
\* urls holds the committed rows, proc[p] the row transaction p has inserted and
\* not yet committed. The statements run at PostgreSQL's default isolation
\* (BeginTx(ctx, nil)): each statement sees the rows committed before it.
\* SELECT short_url FROM urls WHERE original_url = $1, as a set of codes.
CodesWithURL(originalURL) == {c \in DOMAIN urls : urls[c].OriginalURL = originalURL}

InProgress(p) == {q \in Procs \ {p} : proc[q].pc = "inserted"}

\* original_url without its unique index (a faulty variant of UniqueOriginalURL).
UniqueOriginalURL_NoIndex(p, originalURL) == TRUE

\* original_url TEXT NOT NULL UNIQUE: an insert waits while another transaction
\* holds an uncommitted row with the same original_url.
UniqueOriginalURL(p, originalURL) ==
    \A q \in InProgress(p) : proc[q].originalURL # originalURL

\* generateShortID, BeginTx and INSERT ... ON CONFLICT (original_url) DO NOTHING,
\* to the test of rowsAffected. The arbiter index (original_url) is probed first:
\* a committed row with the URL makes the insert do nothing; a row another
\* transaction has inserted and not committed makes the statement wait. Then the
\* primary key: a committed row with the candidate code is a unique violation,
\* returned as an error (the deferred Rollback ends the transaction).
DatabaseStorage_Insert(p, userID, originalURL, candidateShortID) ==
    /\ backend = "Relational"
    /\ proc[p].pc = "idle"
    /\ LET call == [proc[p] EXCEPT !.userID = userID, !.originalURL = originalURL,
                                   !.candidateShortID = candidateShortID]
       IN IF CodesWithURL(originalURL) # {}
          THEN /\ proc' = [proc EXCEPT ![p] =
                             [call EXCEPT !.pc = "conflict", !.userID = "",
                                          !.candidateShortID = 0]]
               /\ last' = NoLast
          ELSE /\ UniqueOriginalURL(p, originalURL)
               /\ IF candidateShortID \in DOMAIN urls
                  THEN /\ proc' = proc
                       /\ last' = Returned(originalURL, 0, "error")
                  ELSE /\ \A q \in InProgress(p) :
                              proc[q].candidateShortID # candidateShortID
                       /\ proc' = [proc EXCEPT ![p] = [call EXCEPT !.pc = "inserted"]]
                       /\ last' = NoLast
    /\ UNCHANGED <<mu, randGen, svcVars, backend, urls, journal, synced, memUrls, firstRet>>

\* rowsAffected > 0: tx.Commit() and return candidateShortID, nil.
DatabaseStorage_CommitInsert(p) ==
    /\ backend = "Relational"
    /\ proc[p].pc = "inserted"
    /\ urls' = MapStore(urls, proc[p].candidateShortID,
                        URLPair("", proc[p].candidateShortID, proc[p].originalURL,
                                proc[p].userID, FALSE))
    /\ proc' = [proc EXCEPT ![p] = IdleProc]
    /\ last' = Returned(proc[p].originalURL,
                        proc[p].candidateShortID, "nil")
    /\ firstRet' = NoteFirst(proc[p].originalURL, proc[p].candidateShortID)
    /\ UNCHANGED <<mu, randGen, svcVars, backend, journal, synced, memUrls>>

\* rowsAffected = 0: SELECT short_url FROM urls WHERE original_url = $1.
DatabaseStorage_Select(p) ==
    /\ backend = "Relational"
    /\ proc[p].pc = "conflict"
    /\ \E c \in CodesWithURL(proc[p].originalURL) :
          proc' = [proc EXCEPT ![p].pc = "selected", ![p].existingShortID = c]
    /\ last' = NoLast
    /\ UNCHANGED <<mu, randGen, svcVars, backend, urls, journal, synced, memUrls, firstRet>>

\* A conflict branch that brings the existing row back (a faulty variant of
\* DatabaseStorage_CommitConflict).
DatabaseStorage_CommitConflict_Revive(p) ==
    /\ backend = "Relational"
    /\ proc[p].pc = "selected"
    /\ urls' = [urls EXCEPT ![proc[p].existingShortID].DeletedFlag = FALSE]
    /\ proc' = [proc EXCEPT ![p] = IdleProc]
    /\ last' = Returned(proc[p].originalURL,
                        proc[p].existingShortID, "ErrConflict")
    /\ firstRet' = NoteFirst(proc[p].originalURL, proc[p].existingShortID)
    /\ UNCHANGED <<mu, randGen, svcVars, backend, journal, synced, memUrls>>

\* tx.Commit() and return existingShortID, NewErrConflict(existingShortID).
DatabaseStorage_CommitConflict(p) ==
    /\ backend = "Relational"
    /\ proc[p].pc = "selected"
    /\ proc' = [proc EXCEPT ![p] = IdleProc]
    /\ last' = Returned(proc[p].originalURL,
                        proc[p].existingShortID, "ErrConflict")
    /\ firstRet' = NoteFirst(proc[p].originalURL, proc[p].existingShortID)
    /\ UNCHANGED <<mu, randGen, svcVars, backend, urls, journal, synced, memUrls>>

\* A rollback that leaves the inserted row in the table (a faulty variant of
\* DatabaseStorage_Rollback).
DatabaseStorage_Rollback_KeepRow(p) ==
    /\ backend = "Relational"
    /\ proc[p].pc \in {"inserted", "conflict", "selected"}
    /\ urls' = IF proc[p].pc = "inserted"
               THEN MapStore(urls, proc[p].candidateShortID,
                             URLPair("", proc[p].candidateShortID, proc[p].originalURL,
                                     proc[p].userID, FALSE))
               ELSE urls
    /\ proc' = [proc EXCEPT ![p] = IdleProc]
    /\ last' = Returned(proc[p].originalURL, 0, "error")
    /\ UNCHANGED <<mu, randGen, svcVars, backend, journal, synced, memUrls, firstRet>>

\* An error return before Commit is called: result.RowsAffected() or the
\* SELECT's Scan returns an error, or the statement was cut short by the
\* context. The deferred tx.Rollback() ends the transaction and the row it
\* inserted, if any, is gone.
DatabaseStorage_Rollback(p) ==
    /\ backend = "Relational"
    /\ proc[p].pc \in {"inserted", "conflict", "selected"}
    /\ proc' = [proc EXCEPT ![p] = IdleProc]
    /\ last' = Returned(proc[p].originalURL, 0, "error")
    /\ UNCHANGED <<mu, randGen, svcVars, backend, urls, journal, synced, memUrls,
                   firstRet>>

\* tx.Commit() returns an error. database/sql marks the transaction done
\* before it sends COMMIT, so the deferred tx.Rollback() returns sql.ErrTxDone
\* and does nothing. committed: the server had committed when the error arose
\* (the connection or the request's context ended before the answer came
\* back); otherwise the server refused or never saw the COMMIT and the
\* transaction is aborted.
DatabaseStorage_CommitFails(p, committed) ==
    /\ backend = "Relational"
    /\ proc[p].pc \in {"inserted", "selected"}
    /\ urls' = IF committed /\ proc[p].pc = "inserted"
               THEN MapStore(urls, proc[p].candidateShortID,
                             URLPair("", proc[p].candidateShortID, proc[p].originalURL,
                                     proc[p].userID, FALSE))
               ELSE urls
    /\ proc' = [proc EXCEPT ![p] = IdleProc]
    /\ last' = Returned(proc[p].originalURL, 0, "commit failed")
    /\ UNCHANGED <<mu, randGen, svcVars, backend, journal, synced, memUrls, firstRet>>

\* An update that changes nothing unless every code of the batch is a row of the
\* caller (a faulty variant of DatabaseStorage_Update).
DatabaseStorage_Update_AllOrNothing(rows, userID, shortIDs) ==
    IF \A i \in DOMAIN shortIDs :
          shortIDs[i] \in DOMAIN rows /\ rows[shortIDs[i]].UserID = userID
    THEN [c \in DOMAIN rows |->
            IF \E i \in DOMAIN shortIDs : shortIDs[i] = c
            THEN [rows[c] EXCEPT !.DeletedFlag = TRUE] ELSE rows[c]]
    ELSE rows

\* UPDATE urls SET is_deleted = TRUE WHERE user_id = $1 AND short_url = ANY($2),
\* one statement; an empty batch returns before it.
DatabaseStorage_Update(rows, userID, shortIDs) ==
    [c \in DOMAIN rows |->
        IF rows[c].UserID = userID /\ (\E i \in DOMAIN shortIDs : shortIDs[i] = c)
        THEN [rows[c] EXCEPT !.DeletedFlag = TRUE]
        ELSE rows[c]]

DatabaseStorage_DeleteUserURLs(userID, shortIDs) ==
    /\ backend = "Relational"
    /\ urls' = IF Len(shortIDs) = 0 THEN urls
               ELSE DatabaseStorage_Update(urls, userID, shortIDs)
    /\ last' = [NoLast EXCEPT !.op = "delete", !.userID = userID, !.shortIDs = shortIDs]
    /\ UNCHANGED <<mu, randGen, svcVars, backend, journal, synced, memUrls, proc, firstRet>>

\* SELECT original_url, is_deleted FROM urls WHERE short_url = $1.
DatabaseStorage_GetOriginalURL(rows, shortID) ==
    IF shortID \notin DOMAIN rows THEN [url |-> "", err |-> "nil"]
    ELSE IF rows[shortID].DeletedFlag THEN [url |-> "", err |-> "ErrURLDeleted"]
    ELSE [url |-> rows[shortID].OriginalURL, err |-> "nil"]

\* The query without its user_id test (a faulty variant of
\* DatabaseStorage_GetURLsByUserID).
DatabaseStorage_GetURLsByUserID_AnyOwner(rows, userID) ==
    {URLPair("", rows[c].ShortURL, rows[c].OriginalURL, userID, FALSE) :
        c \in {d \in DOMAIN rows : ~rows[d].DeletedFlag}}

\* SELECT short_url, original_url FROM urls WHERE user_id = $1 AND is_deleted = FALSE,
\* each row scanned into a URLPair whose UserID is the argument.
DatabaseStorage_GetURLsByUserID(rows, userID) ==
    {URLPair("", rows[c].ShortURL, rows[c].OriginalURL, userID, FALSE) :
        c \in {d \in DOMAIN rows : rows[d].UserID = userID /\ ~rows[d].DeletedFlag}}

\* ------------------------------------- cmd/shortener/main.go, file storage
\* main.go builds memStorage and persistentStorage, makes persistentStorage the
\* store that serves requests, loads the file into memStorage and rewrites the
\* file from memStorage every five minutes. urls is persistentStorage.urls,
\* memUrls is memStorage.urls.

\* InMemoryStorage.Merge
Merge(m, data) == data @@ m

\* InMemoryStorage.GetData
GetData(m) == [k \in DOMAIN m |-> m[k]]

\* FileStorage.LoadAllToMemory: the scanner's loop fills data, skipping the
\* lines json.Unmarshal rejects; then Merge, unless the scanner stopped with an
\* error, which is returned before Merge.
RECURSIVE scanData(_, _)
scanData(data, lines) ==
    IF lines = <<>> \/ ScanStops(Head(lines)) THEN data
    ELSE IF UnmarshalFails(Head(lines)) THEN scanData(data, Tail(lines))
    ELSE LET pair == Unmarshal(Head(lines))
         IN scanData(MapStore(data, pair.ShortURL, pair), Tail(lines))

LoadAllToMemory(m, lines) ==
    IF scannerErr(lines) = "nil" THEN Merge(m, scanData(EmptyMap, lines)) ELSE m

\* The orders in which a range over a Go map may visit its keys.
Orders(keys) ==
    {f \in [1..Cardinality(keys) -> keys] : \A i, j \in DOMAIN f : f[i] = f[j] => i = j}

\* FileStorage.appendToFile of storage.go: Marshal, WriteString, then file.Sync().
\* outcome "open" is an error before anything is written, "sync" a failed Sync.
Main_appendToFile(userID, shortURL, originalURL, outcome) ==
    /\ journal' = IF outcome = "open" THEN journal
                  ELSE Append(journal,
                              Encode(URLPair("uuid", shortURL, originalURL, userID, FALSE)))
    /\ synced' = IF outcome = "ok" THEN Len(journal') ELSE synced

\* FileStorage.CreateShortURL of storage.go.
Main_CreateShortURL(userID, originalURL, shortID, outcome) ==
    /\ backend = "Main"
    /\ outcome # "open" => Len(journal) < MaxJournal
    /\ Main_appendToFile(userID, shortID, originalURL, outcome)
    /\ IF outcome = "ok"
       THEN /\ urls' = MapStore(urls, shortID,
                                URLPair("", shortID, originalURL, userID, FALSE))
            /\ last' = Returned(originalURL, shortID, "nil")
       ELSE /\ urls' = urls
            /\ last' = Returned(originalURL, 0, "error")
    /\ UNCHANGED <<mu, randGen, svcVars, backend, memUrls, proc, firstRet>>

\* FileStorage.GetOriginalURL of storage.go.
Main_GetOriginalURL(m, shortID) ==
    IF shortID \notin DOMAIN m THEN [url |-> "", err |-> "nil"]
    ELSE [url |-> m[shortID].OriginalURL, err |-> "nil"]

\* FileStorage.SaveAllFromMemory(memStorage), from the ticker: the file is
\* truncated and one line is written for each pair of memStorage's data.
SaveAllFromMemory(opened) ==
    /\ backend = "Main"
    /\ IF opened
       THEN LET data == GetData(memUrls)
            IN /\ \E order \in Orders(DOMAIN data) :
                     journal' = [i \in DOMAIN order |->
                                    Encode(URLPair("", data[order[i]].ShortURL,
                                                   data[order[i]].OriginalURL,
                                                   data[order[i]].UserID, FALSE))]
               /\ synced' = 0
               /\ last' = [NoLast EXCEPT !.op = "checkpoint"]
       ELSE /\ UNCHANGED <<journal, synced>>
            /\ last' = [NoLast EXCEPT !.op = "checkpoint", !.err = "error"]
    /\ UNCHANGED <<mu, randGen, svcVars, backend, urls, memUrls, proc, firstRet>>

\* The process ends and main runs again on the same file: a new memStorage, a
\* new persistentStorage (NewFileStorage of storage.go reads nothing), then
\* LoadAllToMemory(memStorage).
Main_Restart ==
    /\ backend = "Main"
    /\ urls' = EmptyMap
    /\ memUrls' = LoadAllToMemory(EmptyMap, journal)
    /\ last' = [NoLast EXCEPT !.op = "restart"]
    /\ UNCHANGED <<mu, randGen, svcVars, backend, journal, synced, proc, firstRet>>

\* The checkpoint over the store that has soft-delete: SaveAllFromMemory's
\* loop run on the index the deletes were applied to. The file is truncated and
\* one line is written per pair, built from ShortURL, OriginalURL and UserID
\* only; the URLPair of part_019 tags DeletedFlag json:"-", so Encode writes
\* no flag either way.
File_SaveAllFromMemory(opened) ==
    /\ backend = "File"
    /\ IF opened
       THEN LET data == GetData(urls)
            IN /\ \E order \in Orders(DOMAIN data) :
                     journal' = [i \in DOMAIN order |->
                                    Encode(URLPair("", data[order[i]].ShortURL,
                                                   data[order[i]].OriginalURL,
                                                   data[order[i]].UserID, FALSE))]
               /\ synced' = 0
               /\ last' = [NoLast EXCEPT !.op = "checkpoint"]
       ELSE /\ UNCHANGED <<journal, synced>>
            /\ last' = [NoLast EXCEPT !.op = "checkpoint", !.err = "error"]
    /\ UNCHANGED <<mu, randGen, svcVars, backend, urls, memUrls, proc, firstRet>>

\* ----------------------------------------------------------- URLService
\* deleteTask; id numbers the accepted tasks in order (history, not a field).
deleteTask(id, userID, shortIDs) == [id |-> id, userID |-> userID, shortIDs |-> shortIDs]

NoTask == deleteTask(0, "", <<>>)

\* NewURLService: both channels made, deleteWorker started.
NewURLService ==
    /\ deleteCh = <<>>
    /\ closed = FALSE
    /\ worker = [pc |-> "select", task |-> NoTask]
    /\ accepted = 0
    /\ applied = 0

\* A send that never finds the buffer full (a faulty variant of CanSend).
CanSend_Unbounded(ch) == TRUE

\* deleteCh: make(chan deleteTask, 100): a send proceeds while the buffer has room.
CanSend(ch) == Len(ch) < DeleteChCap

\* The batches handleDeleteUserURLs passes on: it answers an empty one itself.
ServiceBatches == {<<1>>, <<2>>, <<1, 2>>}

\* URLService.DeleteURLs: one select over the send and <-ctx.Done(). done says
\* whether the caller's context is cancelled when the call returns; when both
\* cases can proceed the runtime picks either. With neither the caller waits.
URLService_DeleteURLs(userID, shortIDs, done, pick) ==
    /\ backend = "Service"
    /\ accepted < MaxTasks
    /\ \/ /\ pick = "send" /\ CanSend(deleteCh)
          /\ deleteCh' = Append(deleteCh, deleteTask(accepted + 1, userID, shortIDs))
          /\ accepted' = accepted + 1
          /\ last' = [NoLast EXCEPT !.op = "DeleteURLs"]
       \/ /\ pick = "done" /\ done
          /\ UNCHANGED <<deleteCh, accepted>>
          /\ last' = [NoLast EXCEPT !.op = "DeleteURLs", !.err = "ctx.Err"]
    /\ UNCHANGED <<mu, randGen, backend, urls, journal, synced, memUrls, proc, firstRet,
                   closed, worker, applied>>

\* deleteWorker, case task := <-s.deleteCh. The case can proceed whenever the
\* buffer holds a task, closeCh closed or not.
deleteWorker_Receive ==
    /\ backend = "Service"
    /\ worker.pc = "select"
    /\ deleteCh # <<>>
    /\ worker' = [pc |-> "task", task |-> Head(deleteCh)]
    /\ deleteCh' = Tail(deleteCh)
    /\ last' = NoLast
    /\ UNCHANGED <<mu, randGen, backend, urls, journal, synced, memUrls, proc, firstRet,
                   closed, accepted, applied>>

\* A worker that drops its task without the call (a faulty variant of
\* deleteWorker_Delete).
deleteWorker_Delete_NoCall ==
    /\ backend = "Service"
    /\ worker.pc = "task"
    /\ worker' = [pc |-> "select", task |-> NoTask]
    /\ last' = NoLast
    /\ UNCHANGED <<mu, randGen, backend, urls, journal, synced, memUrls, proc, firstRet,
                   deleteCh, closed, accepted, applied>>

\* A worker that keeps its task after the call and calls again (a faulty
\* variant of deleteWorker_Delete).
deleteWorker_Delete_Retry ==
    /\ backend = "Service"
    /\ worker.pc = "task"
    /\ urls' = DeleteLoop(urls, worker.task.userID, worker.task.shortIDs)
    /\ applied' = applied + 1
    /\ applied < MaxTasks
    /\ last' = [NoLast EXCEPT !.op = "delete", !.userID = worker.task.userID,
                              !.shortIDs = worker.task.shortIDs]
    /\ UNCHANGED <<mu, randGen, backend, journal, synced, memUrls, proc, firstRet,
                   deleteCh, closed, worker, accepted>>

\* deleteWorker: _ = s.storage.DeleteUserURLs(context.Background(), task.userID,
\* task.shortIDs) on the in-memory store, its error dropped, then the loop again.
deleteWorker_Delete ==
    /\ backend = "Service"
    /\ worker.pc = "task"
    /\ urls' = DeleteLoop(urls, worker.task.userID, worker.task.shortIDs)
    /\ applied' = applied + 1
    /\ worker' = [pc |-> "select", task |-> NoTask]
    /\ last' = [NoLast EXCEPT !.op = "delete", !.userID = worker.task.userID,
                              !.shortIDs = worker.task.shortIDs]
    /\ UNCHANGED <<mu, randGen, backend, journal, synced, memUrls, proc, firstRet,
                   deleteCh, closed, accepted>>

\* deleteWorker, case <-s.closeCh: return.
deleteWorker_Return ==
    /\ backend = "Service"
    /\ worker.pc = "select"
    /\ closed
    /\ worker' = [pc |-> "exited", task |-> NoTask]
    /\ last' = NoLast
    /\ UNCHANGED <<mu, randGen, backend, urls, journal, synced, memUrls, proc, firstRet,
                   deleteCh, closed, accepted, applied>>

\* URLService.Close: close(s.closeCh), once.
URLService_Close ==
    /\ backend = "Service"
    /\ ~closed
    /\ closed' = TRUE
    /\ last' = [NoLast EXCEPT !.op = "Close"]
    /\ UNCHANGED <<mu, randGen, backend, urls, journal, synced, memUrls, proc, firstRet,
                   deleteCh, worker, accepted, applied>>

\* -------------------------------------------------------- the dispatch
\* What the store answers in the current state, by backend.
GetOriginalURL(shortID) ==
    CASE backend = "Relational" -> DatabaseStorage_GetOriginalURL(urls, shortID)
      [] backend = "Main" -> Main_GetOriginalURL(urls, shortID)
      [] OTHER -> MapGetOriginalURL(urls, shortID)

GetURLsByUserID(userID) ==
    IF backend = "Relational"
    THEN DatabaseStorage_GetURLsByUserID(urls, userID)
    ELSE MapGetURLsByUserID(urls, userID)

\* What DeleteUserURLs(userID, shortIDs) leaves of the records m, by backend.
DeleteUserURLs(m, userID, shortIDs) ==
    IF backend = "Relational"
    THEN IF Len(shortIDs) = 0 THEN m ELSE DatabaseStorage_Update(m, userID, shortIDs)
    ELSE DeleteLoop(m, userID, shortIDs)

\* A get or a list returns and changes nothing.
Read_GetOriginalURL(shortID) ==
    /\ backend \in {"Memory", "File", "Relational", "Main"}
    /\ last' = [NoLast EXCEPT !.op = "get", !.shortID = shortID]
    /\ UNCHANGED <<mu, randGen, svcVars, backend, urls, journal, synced, memUrls, proc, firstRet>>

Read_GetURLsByUserID(userID) ==
    /\ backend \in {"Memory", "File", "Relational"}
    /\ last' = [NoLast EXCEPT !.op = "list", !.userID = userID]
    /\ UNCHANGED <<mu, randGen, svcVars, backend, urls, journal, synced, memUrls, proc, firstRet>>

\* --------------------------------------------------- net/http, handlers
\* A Go string whose bytes matter is a sequence of characters, "U+00E9" standing
\* for the two UTF-8 bytes 0xC3 0xA9 of that character.
Letters == {"a", "f", "h", "p", "s", "t"}
NonASCII == {"U+00E9"}

\* A test that compares only as many bytes as s has (a faulty variant of
\* HasPrefix).
HasPrefix_Short(s, prefix) ==
    LET n == IF Len(s) < Len(prefix) THEN Len(s) ELSE Len(prefix)
    IN SubSeq(s, 1, n) = SubSeq(prefix, 1, n)

\* strings.HasPrefix
HasPrefix(s, prefix) ==
    Len(s) >= Len(prefix) /\ SubSeq(s, 1, Len(prefix)) = prefix

\* net/url getScheme: the letters before the first ':' (empty when a byte that
\* cannot be part of a scheme comes first).
RECURSIVE getScheme(_, _)
getScheme(rawURL, i) ==
    IF i > Len(rawURL) THEN <<>>
    ELSE IF rawURL[i] \in Letters THEN getScheme(rawURL, i + 1)
    ELSE IF rawURL[i] = ":" /\ i > 1 THEN SubSeq(rawURL, 1, i - 1)
    ELSE <<>>

\* net/http hexEscapeNonASCII: every byte >= 0x80 becomes %XX.
RECURSIVE hexEscapeNonASCII(_)
hexEscapeNonASCII(s) ==
    IF s = <<>> THEN <<>>
    ELSE (IF Head(s) \in NonASCII THEN <<"%", "C", "3", "%", "A", "9">>
          ELSE <<Head(s)>>) \o hexEscapeNonASCII(Tail(s))

\* A Location that is the url as stored (a faulty variant of Redirect).
Redirect_NoEscape(url) ==
    IF getScheme(url, 1) = <<>> /\ (url = <<>> \/ url[1] # "/")
    THEN <<"/">> \o url
    ELSE url

\* http.Redirect's Location header for a request whose path is /{shortID}: a
\* url without scheme and host is made absolute against the request path, whose
\* directory is "/" (path.Clean leaves the one-segment result as it is); then
\* the non-ASCII bytes are escaped.
Redirect(url) ==
    LET abs == IF getScheme(url, 1) = <<>> /\ (url = <<>> \/ url[1] # "/")
               THEN <<"/">> \o url
               ELSE url
    IN hexEscapeNonASCII(abs)

\* What a handler wrote to the http.ResponseWriter.
NoResponse == [op |-> "none", status |-> 0]

\* A lookup that does not test the deleted flag (a faulty variant of
\* Storage_GetOriginalURL).
Storage_GetOriginalURL_NoFlag(shortID) ==
    IF shortID \notin DOMAIN urls THEN [url |-> <<>>, err |-> "nil"]
    ELSE [url |-> urls[shortID].OriginalURL, err |-> "nil"]

\* s.storage.GetOriginalURL(ctx, shortID) of the in-memory and the relational
\* store (the same three outcomes), over a store whose URLs are byte strings.
Storage_GetOriginalURL(shortID) ==
    IF shortID \notin DOMAIN urls THEN [url |-> <<>>, err |-> "nil"]
    ELSE IF urls[shortID].DeletedFlag THEN [url |-> <<>>, err |-> "ErrURLDeleted"]
    ELSE [url |-> urls[shortID].OriginalURL, err |-> "nil"]

\* Handlers.handleGet, with URLService.GetOriginalURL and the store's
\* GetOriginalURL. failed: the relational store's query returns an error other
\* than sql.ErrNoRows.
handleGet(shortID, failed) ==
    /\ backend \in {"Memory", "Relational"}
    /\ failed => backend = "Relational"
    /\ LET res == IF failed THEN [url |-> <<>>, err |-> "error"]
                  ELSE Storage_GetOriginalURL(shortID)
       IN last' = IF res.err = "ErrURLDeleted"
                  THEN [op |-> "handleGet", shortID |-> shortID, failed |-> failed,
                        status |-> 410]
                  ELSE IF res.err # "nil"
                  THEN [op |-> "handleGet", shortID |-> shortID, failed |-> failed,
                        status |-> 400]
                  ELSE [op |-> "handleGet", shortID |-> shortID, failed |-> failed,
                        status |-> 307, Location |-> Redirect(res.url)]
    /\ UNCHANGED <<mu, randGen, svcVars, backend, urls, journal, synced, memUrls,
                   proc, firstRet>>

\* What a store's CreateShortURL leaves and returns.
CreateResult(rows, shortID, err) == [urls |-> rows, shortID |-> shortID, err |-> err]

\* A create that answers a conflict with its own candidate code (a faulty
\* variant of DatabaseStorage_CreateShortURL).
DatabaseStorage_CreateShortURL_Candidate(rows, userID, originalURL, candidateShortID, failed) ==
    LET existing == {c \in DOMAIN rows : rows[c].OriginalURL = originalURL}
    IN IF failed THEN CreateResult(rows, 0, "error")
       ELSE IF existing # {}
       THEN CreateResult(rows, candidateShortID, "ErrConflict")
       ELSE IF candidateShortID \in DOMAIN rows
       THEN CreateResult(rows, 0, "error")
       ELSE CreateResult(MapStore(rows, candidateShortID,
                                  URLPair("", candidateShortID, originalURL, userID, FALSE)),
                         candidateShortID, "nil")

\* DatabaseStorage.CreateShortURL for a caller that runs alone, from BeginTx to
\* its return. failed: BeginTx, the insert or the select returns an error of
\* the connection, and the deferred Rollback leaves the table as it was.
DatabaseStorage_CreateShortURL(rows, userID, originalURL, candidateShortID, failed) ==
    LET existing == {c \in DOMAIN rows : rows[c].OriginalURL = originalURL}
    IN IF failed THEN CreateResult(rows, 0, "error")
       ELSE IF existing # {}
       THEN CreateResult(rows, CHOOSE c \in existing : TRUE, "ErrConflict")
       ELSE IF candidateShortID \in DOMAIN rows
       THEN CreateResult(rows, 0, "error")
       ELSE CreateResult(MapStore(rows, candidateShortID,
                                  URLPair("", candidateShortID, originalURL, userID, FALSE)),
                         candidateShortID, "nil")

\* s.storage.CreateShortURL(ctx, userID, originalURL), by backend.
Storage_CreateShortURL(userID, originalURL, shortID, failed) ==
    IF backend = "Relational"
    THEN DatabaseStorage_CreateShortURL(urls, userID, originalURL, shortID, failed)
    ELSE CreateResult(MapStore(urls, shortID,
                               URLPair("", shortID, originalURL, userID, FALSE)),
                      shortID, "nil")

\* What URLService.CreateShortURL returns; ExistingShortID is the field of the
\* *service.ErrConflict when err is one (0 otherwise).
ServiceResult(shortID, err, existingShortID) ==
    [shortID |-> shortID, err |-> err, ExistingShortID |-> existingShortID]

\* The service result without the code on a conflict (a faulty variant of
\* URLService_CreateShortURL).
URLService_CreateShortURL_DropCode(res) ==
    IF res.err # "nil" THEN ServiceResult(0, res.err, 0)
    ELSE ServiceResult(res.shortID, "nil", 0)

\* URLService.CreateShortURL, after its one call of the store: res is what the
\* store returned.
URLService_CreateShortURL(res) ==
    IF res.err # "nil"
    THEN IF res.err = "ErrConflict"
         THEN ServiceResult(res.shortID, "service.ErrConflict", res.shortID)
         ELSE ServiceResult(0, res.err, 0)
    ELSE ServiceResult(res.shortID, "nil", 0)

\* fmt.Sprintf("%s/%s", cfg.BaseURL, shortID)
ShortURL(shortID) == <<"BaseURL", "/", shortID>>

\* The request bodies: the empty body, URLs of both accepted schemes, one with a
\* non-ASCII character, and strings that are not accepted.
URL_HTTP == <<"h", "t", "t", "p", ":", "/", "/">>
URL_HTTPS == <<"h", "t", "t", "p", "s", ":", "/", "/">>
Bodies ==
    {<<>>, URL_HTTP \o <<"a">>, URL_HTTPS \o <<"U+00E9">>,
     <<"f", "t", "p", ":", "/", "/", "a">>, <<"h", "t", "t", "p", ":", "/", "a">>}

\* The body written with the short URL: handlePost prints it as text/plain,
\* handleAPIShorten encodes ShortenResponse{Result: ...} as JSON.
WriteShortURL(op, shortID) ==
    IF op = "handleAPIShorten"
    THEN <<"{", "result", ":">> \o ShortURL(shortID) \o <<"}">>
    ELSE ShortURL(shortID)

\* http.Error(w, "Failed to create short URL", http.StatusInternalServerError)
FailedToCreate == <<"Failed to create short URL">>

\* An answer that lacks the errors.As branch: every service error is answered
\* with 500 (a faulty variant of Respond).
Respond_NoConflictBranch(op, svc) ==
    IF svc.err # "nil"
    THEN [status |-> 500, body |-> FailedToCreate]
    ELSE [status |-> 201, body |-> WriteShortURL(op, svc.shortID)]

\* What a shortening handler answers to (shortID, err) of the service.
Respond(op, svc) ==
    IF svc.err # "nil"
    THEN IF svc.err = "service.ErrConflict"
         THEN [status |-> 409, body |-> WriteShortURL(op, svc.shortID)]
         ELSE [status |-> 500, body |-> FailedToCreate]
    ELSE [status |-> 201, body |-> WriteShortURL(op, svc.shortID)]

\* The part of a shortening handler after the URL has been read: the prefix
\* test, the user ID of the context (Auth has put one there), the service call
\* and the answer. failed => the store is the relational one.
Shorten(op, originalURL, userID, shortID, failed) ==
    /\ backend \in {"Memory", "Relational"}
    /\ failed => backend = "Relational"
    /\ IF ~HasPrefix(originalURL, URL_HTTP) /\ ~HasPrefix(originalURL, URL_HTTPS)
       THEN /\ last' = [op |-> op, originalURL |-> originalURL, status |-> 400]
            /\ urls' = urls
       ELSE LET res == Storage_CreateShortURL(userID, originalURL, shortID, failed)
                svc == URLService_CreateShortURL(res)
            IN /\ urls' = res.urls
               /\ last' = [op |-> op, originalURL |-> originalURL, userID |-> userID,
                           candidateShortID |-> shortID, failed |-> failed,
                           storage |-> [shortID |-> res.shortID, err |-> res.err],
                           service |-> svc,
                           status |-> Respond(op, svc).status,
                           body |-> Respond(op, svc).body]
    /\ UNCHANGED <<mu, randGen, svcVars, backend, journal, synced, memUrls, proc,
                   firstRet>>

\* Handlers.handlePost: originalURL := string(body).
handlePost(body, userID, shortID, failed) ==
    /\ backend \in {"Memory", "Relational"}
    /\ Shorten("handlePost", body, userID, shortID, failed)

\* Handlers.handleAPIShorten: json.Unmarshal(body, &req) fails on a body that is
\* not a JSON object with a string url (req is then NoJSON); an object without
\* the field leaves req.URL empty.
NoJSON == [wellFormed |-> FALSE, url |-> <<>>]
JSONBodies == {NoJSON} \cup {[wellFormed |-> TRUE, url |-> b] : b \in Bodies}

handleAPIShorten(req, userID, shortID, failed) ==
    IF ~req.wellFormed
    THEN /\ backend \in {"Memory", "Relational"}
         /\ ~failed
         /\ last' = [op |-> "handleAPIShorten", originalURL |-> req.url, status |-> 400,
                     json |-> "invalid"]
         /\ UNCHANGED <<mu, randGen, svcVars, backend, urls, journal, synced, memUrls,
                        proc, firstRet>>
    ELSE Shorten("handleAPIShorten", req.url, userID, shortID, failed)

\* ------------------------------------------- Handlers.handleDeleteUserURLs
\* r.Context().Value(middleware.UserIDKey).(string): ok is the type assertion.
NoUser == [ok |-> FALSE, userID |-> ""]
ContextUsers == {NoUser} \cup {[ok |-> TRUE, userID |-> id] : id \in {"", "o1", "o2"}}

\* The request body as json.NewDecoder(r.Body).Decode(&shortIDs) sees it.
NoList == [wellFormed |-> FALSE, shortIDs |-> <<>>]
DeleteBodies ==
    {NoList} \cup {[wellFormed |-> TRUE, shortIDs |-> b] : b \in {<<>>} \cup ServiceBatches}

\* A test that takes any string for an owner (a faulty variant of Authenticated).
Authenticated_AnyString(user) == user.ok

\* !ok || userID == "" is the unauthorized case.
Authenticated(user) == user.ok /\ user.userID # ""

DeleteResponse(user, body, status, err) ==
    [op |-> "handleDeleteUserURLs", user |-> user, body |-> body, status |-> status,
     err |-> err]

\* Handlers.handleDeleteUserURLs with its call of URLService.DeleteURLs: the
\* select over the send and <-ctx.Done() (done: the request's context is
\* cancelled; pick: the case the runtime takes when both can proceed). The
\* handler never calls the store.
handleDeleteUserURLs(user, body, done, pick) ==
    /\ backend = "Service"
    /\ accepted < MaxTasks
    /\ IF ~Authenticated(user)
       THEN /\ last' = DeleteResponse(user, body, 401, "nil")
            /\ UNCHANGED <<deleteCh, accepted>>
       ELSE IF ~body.wellFormed
       THEN /\ last' = DeleteResponse(user, body, 400, "nil")
            /\ UNCHANGED <<deleteCh, accepted>>
       ELSE IF Len(body.shortIDs) = 0
       THEN /\ last' = DeleteResponse(user, body, 202, "nil")
            /\ UNCHANGED <<deleteCh, accepted>>
       ELSE \/ /\ pick = "send" /\ CanSend(deleteCh)
               /\ deleteCh' = Append(deleteCh,
                                     deleteTask(accepted + 1, user.userID, body.shortIDs))
               /\ accepted' = accepted + 1
               /\ last' = DeleteResponse(user, body, 202, "nil")
            \/ /\ pick = "done" /\ done
               /\ UNCHANGED <<deleteCh, accepted>>
               /\ last' = DeleteResponse(user, body, 500, "ctx.Err")
    /\ UNCHANGED <<mu, randGen, backend, urls, journal, synced, memUrls, proc, firstRet,
                   closed, worker, applied>>

\* ------------------------------------------------------ middleware.Auth
\* sign: hex(HMAC-SHA256(secretKey, data)), one token per input and different
\* tokens for different inputs.
sign(data) ==
    CASE data = "" -> "hmac()"
      [] data = "o1" -> "hmac(o1)"
      [] data = "o2" -> "hmac(o2)"
      [] data = "uuid1" -> "hmac(uuid1)"
      [] data = "uuid2" -> "hmac(uuid2)"
      [] OTHER -> "hmac(other)"

\* A cookie value is a sequence of tokens: user IDs, signatures and the byte "|".
\* strings.Split(value, "|"): the parts between the bars, "" where two bars (or
\* a bar and an end) meet; a part is at most one token here.
RECURSIVE Split(_, _)
Split(value, part) ==
    IF value = <<>> THEN <<part>>
    ELSE IF Head(value) = "|" THEN <<part>> \o Split(Tail(value), "")
    ELSE Split(Tail(value), Head(value))

\* The user_id cookie of a request: absent, or any of these values.
NoCookie == [present |-> FALSE, Value |-> <<>>]
CookieIDs == {"", "o1", "o2"}
CookieValues ==
    {<<>>} \cup {<<id>> : id \in CookieIDs \ {""}}
    \cup {<<id, "|", sig>> : id \in CookieIDs \ {""},
                             sig \in {sign(d) : d \in CookieIDs} \cup {"forged"}}
    \cup {<<"|", sig>> : sig \in {sign(d) : d \in CookieIDs} \cup {"forged"}}
    \cup {<<id, "|", sign(id), "|", "x">> : id \in CookieIDs \ {""}}
Cookies == {NoCookie} \cup {[present |-> TRUE, Value |-> v] : v \in CookieValues}

\* uuid.NewString()
NewUUIDs == {"uuid1", "uuid2"}

\* Auth, up to next.ServeHTTP: userID is what it puts in the request context,
\* SetCookie the cookie it sets on the response (NoCookie: none).
Auth(cookie, uuid) ==
    /\ backend \in {"Memory", "Relational"}
    /\ LET parts == Split(cookie.Value, "")
           newCookie == \/ ~cookie.present
                        \/ ~(Len(parts) = 2 /\ sign(parts[1]) = parts[2])
           userID == IF newCookie THEN uuid ELSE parts[1]
       IN last' = [op |-> "Auth", status |-> 0, cookie |-> cookie, userID |-> userID,
                   SetCookie |-> IF newCookie
                                 THEN [present |-> TRUE,
                                       Value |-> <<userID, "|", sign(userID)>>]
                                 ELSE NoCookie]
    /\ UNCHANGED <<mu, randGen, svcVars, backend, urls, journal, synced, memUrls,
                   proc, firstRet>>

\* The service behind the router: the store app.New chose, empty or holding
\* one record that its owner has deleted.
InitHTTP ==
    /\ backend \in {"Memory", "Relational"}
    /\ urls \in {EmptyMap,
                 MapStore(EmptyMap, 1, URLPair("", 1, URL_HTTP \o <<"a">>, "o1", TRUE))}
    /\ journal = <<>>
    /\ synced = 0
    /\ memUrls = EmptyMap
    /\ proc = [p \in Procs |-> IdleProc]
    /\ firstRet = NoFirst
    /\ last = NoResponse
    /\ NewURLService
    /\ mu = NewRWMutex
    /\ randGen = <<>>

NextHTTP ==
    \/ \E b \in Bodies, o \in Owners, c \in Codes, f \in BOOLEAN : handlePost(b, o, c, f)
    \/ \E r \in JSONBodies, o \in Owners, c \in Codes, f \in BOOLEAN :
          handleAPIShorten(r, o, c, f)
    \/ \E c \in Codes, f \in BOOLEAN : handleGet(c, f)
    \/ \E k \in Cookies, id \in NewUUIDs : Auth(k, id)

SpecHTTP == InitHTTP /\ [][NextHTTP]_vars

\* ------------------------------------------------------ generateShortID
\* const letterBytes
letterBytes ==
    <<"a", "b", "c", "d", "e", "f", "g", "h", "i", "j", "k", "l", "m",
     "n", "o", "p", "q", "r", "s", "t", "u", "v", "w", "x", "y", "z",
     "A", "B", "C", "D", "E", "F", "G", "H", "I", "J", "K", "L", "M",
     "N", "O", "P", "Q", "R", "S", "T", "U", "V", "W", "X", "Y", "Z",
     "0", "1", "2", "3", "4", "5", "6", "7", "8", "9">>

\* What randGen.Intn(len(letterBytes)) returns: an index from 0, here the first,
\* a middle and the last one. RacePanic stands for the call that does not
\* return: randGen is one *rand.Rand for the whole package and
\* DatabaseStorage.CreateShortURL uses it outside any lock, so two callers race
\* on its state, and a racing call returns some index in range or panics with an
\* index out of range inside the source.
Draws == {0, 30, Len(letterBytes) - 1}
RacePanic == -1

\* A loop that stops one byte early (a faulty variant of fillRandom).
RECURSIVE fillRandom_Short(_, _, _)
fillRandom_Short(b, i, draws) ==
    IF i > Len(b) - 1 THEN [panicked |-> FALSE, s |-> b]
    ELSE IF draws[i] = RacePanic THEN [panicked |-> TRUE, s |-> <<>>]
    ELSE fillRandom_Short([b EXCEPT ![i] = letterBytes[draws[i] + 1]], i + 1, draws)

\* generateRandomString's loop, for i := range b: b[i] = letterBytes[Intn(...)].
RECURSIVE fillRandom(_, _, _)
fillRandom(b, i, draws) ==
    IF i > Len(b) THEN [panicked |-> FALSE, s |-> b]
    ELSE IF draws[i] = RacePanic THEN [panicked |-> TRUE, s |-> <<>>]
    ELSE fillRandom([b EXCEPT ![i] = letterBytes[draws[i] + 1]], i + 1, draws)

\* generateRandomString(n): b := make([]byte, n) is n zero bytes, then the loop.
generateRandomString(n, draws) == fillRandom([i \in 1..n |-> "NUL"], 1, draws)

\* generateShortID
generateShortID(draws) == generateRandomString(8, draws)

\* CreateShortURL of the in-memory and of the relational store, with the code
\* generateShortID produces from the next values of randGen.
Generated_CreateShortURL(userID, originalURL) ==
    /\ backend \in {"Memory", "Relational"}
    /\ randGen # <<>>
    /\ LET gen == generateShortID(randGen)
       IN IF gen.panicked
          THEN /\ urls' = urls
               /\ last' = [NoLast EXCEPT !.op = "panic"]
          ELSE LET res == Storage_CreateShortURL(userID, originalURL, gen.s, FALSE)
               IN /\ urls' = res.urls
                  /\ last' = [op |-> "create", originalURL |-> originalURL,
                              shortID |-> res.shortID, err |-> res.err]
    /\ randGen' = <<>>
    /\ UNCHANGED <<mu, svcVars, backend, journal, synced, memUrls, proc, firstRet>>

\* An empty store and the eight values randGen will return next; only callers
\* of the relational store, which takes no lock, can race on randGen.
InitGenerated ==
    /\ backend \in {"Memory", "Relational"}
    /\ urls = EmptyMap
    /\ journal = <<>>
    /\ synced = 0
    /\ memUrls = EmptyMap
    /\ proc = [p \in Procs |-> IdleProc]
    /\ firstRet = NoFirst
    /\ last = NoLast
    /\ NewURLService
    /\ mu = NewRWMutex
    /\ randGen \in [1..8 -> Draws \cup (IF backend = "Relational" THEN {RacePanic} ELSE {})]

NextGenerated == \E o \in {"o1"}, u \in {"u1"} : Generated_CreateShortURL(o, u)

SpecGenerated == InitGenerated /\ [][NextGenerated]_vars

\* ------------------------------------------------- the stores' RWMutex
\* InMemoryStorage and FileStorage methods as their goroutines run them, one
\* lock operation or one statement at a time. proc[p] is goroutine p: its
\* position, the method it runs and the URL it creates. The methods work on
\* code 1 of owner o1.
LockedIdle == [pc |-> "idle", op |-> "none", originalURL |-> ""]

\* A writer that does not wait for the readers (a faulty variant of ReadersGone).
ReadersGone_NoWait(m) == TRUE

\* RWMutex.Lock proceeds once the readers that held the lock have left.
ReadersGone(m) == m.r = {}

\* mu.Lock() of CreateShortURL and DeleteUserURLs: the writer takes rw.w, which
\* keeps other writers and new readers out, and waits for the readers inside.
RWMutex_Lock(p, op, originalURL) ==
    /\ backend \in {"LockedMemory", "LockedFile"}
    /\ proc[p].pc = "idle"
    /\ mu.w = 0
    /\ mu' = [mu EXCEPT !.w = p]
    /\ proc' = [proc EXCEPT ![p] =
                  [pc |-> IF ReadersGone(mu) THEN "locked" ELSE "waiting",
                   op |-> op, originalURL |-> originalURL]]
    /\ last' = NoLast
    /\ UNCHANGED <<randGen, svcVars, backend, urls, journal, synced, memUrls, firstRet>>

\* The last reader has left: the waiting writer holds the lock.
RWMutex_LockWake(p) ==
    /\ backend \in {"LockedMemory", "LockedFile"}
    /\ proc[p].pc = "waiting"
    /\ ReadersGone(mu)
    /\ proc' = [proc EXCEPT ![p].pc = "locked"]
    /\ last' = NoLast
    /\ UNCHANGED <<mu, randGen, svcVars, backend, urls, journal, synced, memUrls,
                   firstRet>>

\* mu.RLock() of GetOriginalURL and GetURLsByUserID: blocked while a writer
\* holds the lock or waits for it.
RWMutex_RLock(p, op) ==
    /\ backend \in {"LockedMemory", "LockedFile"}
    /\ proc[p].pc = "idle"
    /\ mu.w = 0
    /\ mu' = [mu EXCEPT !.r = @ \cup {p}]
    /\ proc' = [proc EXCEPT ![p] = [pc |-> "rlocked", op |-> op, originalURL |-> ""]]
    /\ last' = NoLast
    /\ UNCHANGED <<randGen, svcVars, backend, urls, journal, synced, memUrls, firstRet>>

\* FileStorage.CreateShortURL: s.appendToFile(&pair); written = FALSE is its error,
\* after which the method returns.
Locked_appendToFile(p, written) ==
    /\ backend = "LockedFile"
    /\ proc[p].pc = "locked" /\ proc[p].op = "create"
    /\ IF written
       THEN /\ Len(journal) < MaxJournal
            /\ appendToFile(URLPair("uuid", 1, proc[p].originalURL, "o1", FALSE))
            /\ proc' = [proc EXCEPT ![p].pc = "appended"]
       ELSE /\ UNCHANGED <<journal, synced>>
            /\ proc' = [proc EXCEPT ![p].pc = "return"]
    /\ last' = NoLast
    /\ UNCHANGED <<mu, randGen, svcVars, backend, urls, memUrls, firstRet>>

\* s.urls[shortID] = pair of either CreateShortURL.
Locked_Store(p) ==
    /\ \/ backend = "LockedFile" /\ proc[p].pc = "appended"
       \/ backend = "LockedMemory" /\ proc[p].pc = "locked" /\ proc[p].op = "create"
    /\ urls' = MapStore(urls, 1, URLPair(IF backend = "LockedFile" THEN "uuid" ELSE "",
                                         1, proc[p].originalURL, "o1", FALSE))
    /\ proc' = [proc EXCEPT ![p].pc = "return"]
    /\ last' = NoLast
    /\ UNCHANGED <<mu, randGen, svcVars, backend, journal, synced, memUrls, firstRet>>

\* The loop of either DeleteUserURLs.
Locked_DeleteLoop(p) ==
    /\ backend \in {"LockedMemory", "LockedFile"}
    /\ proc[p].pc = "locked" /\ proc[p].op = "delete"
    /\ urls' = DeleteLoop(urls, "o1", <<1>>)
    /\ proc' = [proc EXCEPT ![p].pc = "return"]
    /\ last' = NoLast
    /\ UNCHANGED <<mu, randGen, svcVars, backend, journal, synced, memUrls, firstRet>>

\* defer s.mu.Unlock() as the writer returns.
RWMutex_Unlock(p) ==
    /\ backend \in {"LockedMemory", "LockedFile"}
    /\ proc[p].pc = "return"
    /\ mu' = [mu EXCEPT !.w = 0]
    /\ proc' = [proc EXCEPT ![p] = LockedIdle]
    /\ last' = [NoLast EXCEPT !.op = proc[p].op]
    /\ UNCHANGED <<randGen, svcVars, backend, urls, journal, synced, memUrls, firstRet>>

\* The reader's map read, and defer s.mu.RUnlock() as it returns.
RWMutex_RUnlock(p) ==
    /\ backend \in {"LockedMemory", "LockedFile"}
    /\ proc[p].pc = "rlocked"
    /\ mu' = [mu EXCEPT !.r = @ \ {p}]
    /\ proc' = [proc EXCEPT ![p] = LockedIdle]
    /\ last' = [NoLast EXCEPT !.op = proc[p].op]
    /\ UNCHANGED <<randGen, svcVars, backend, urls, journal, synced, memUrls, firstRet>>

InitLocked ==
    /\ backend \in {"LockedMemory", "LockedFile"}
    /\ urls = EmptyMap
    /\ journal = <<>>
    /\ synced = 0
    /\ memUrls = EmptyMap
    /\ proc = [p \in Procs |-> LockedIdle]
    /\ firstRet = NoFirst
    /\ last = NoLast
    /\ NewURLService
    /\ mu = NewRWMutex
    /\ randGen = <<>>

NextLocked ==
    \/ \E p \in Procs, u \in URLs : RWMutex_Lock(p, "create", u)
    \/ \E p \in Procs : RWMutex_Lock(p, "delete", "")
    \/ \E p \in Procs : RWMutex_LockWake(p)
    \/ \E p \in Procs, op \in {"get", "list"} : RWMutex_RLock(p, op)
    \/ \E p \in Procs, w \in BOOLEAN : Locked_appendToFile(p, w)
    \/ \E p \in Procs : Locked_Store(p)
    \/ \E p \in Procs : Locked_DeleteLoop(p)
    \/ \E p \in Procs : RWMutex_Unlock(p)
    \/ \E p \in Procs : RWMutex_RUnlock(p)

SpecLocked == InitLocked /\ [][NextLocked]_vars

\* ------------------------------------------------------- specification
\* The store app.New builds, before the first request.
Init ==
    /\ backend \in {"Memory", "File", "Relational"}
    /\ urls = EmptyMap
    /\ journal = <<>>
    /\ synced = 0
    /\ memUrls = EmptyMap
    /\ proc = [p \in Procs |-> IdleProc]
    /\ firstRet = NoFirst
    /\ last = NoLast
    /\ NewURLService
    /\ mu = NewRWMutex
    /\ randGen = <<>>

MemoryNext ==
    \/ \E o \in Owners, u \in URLs, c \in Codes : InMemoryStorage_CreateShortURL(o, u, c)
    \/ \E o \in Owners, b \in Batches : InMemoryStorage_DeleteUserURLs(o, b)

FileNext ==
    \/ \E o \in Owners, u \in URLs, c \in Codes, w \in BOOLEAN :
          FileStorage_CreateShortURL(o, u, c, w)
    \/ \E o \in Owners, b \in Batches : FileStorage_DeleteUserURLs(o, b)
    \/ NewFileStorage

RelationalNext ==
    \/ \E p \in Procs, o \in Owners, u \in URLs, c \in Codes :
          DatabaseStorage_Insert(p, o, u, c)
    \/ \E p \in Procs : DatabaseStorage_CommitInsert(p)
    \/ \E p \in Procs : DatabaseStorage_Select(p)
    \/ \E p \in Procs : DatabaseStorage_CommitConflict(p)
    \/ \E o \in Owners, b \in Batches : DatabaseStorage_DeleteUserURLs(o, b)

ReadNext ==
    \/ \E c \in Codes : Read_GetOriginalURL(c)
    \/ \E o \in Owners : Read_GetURLsByUserID(o)

Next == MemoryNext \/ FileNext \/ RelationalNext \/ ReadNext

Spec == Init /\ [][Next]_vars

\* The relational store alone, with its concurrent callers, with calls that
\* fail on the way, and with deletes of one code at a time.
InitRelational == Init /\ backend = "Relational"

NextRelational ==
    \/ \E p \in Procs, o \in Owners, u \in URLs, c \in Codes :
          DatabaseStorage_Insert(p, o, u, c)
    \/ \E p \in Procs : DatabaseStorage_CommitInsert(p)
    \/ \E p \in Procs : DatabaseStorage_Select(p)
    \/ \E p \in Procs : DatabaseStorage_CommitConflict(p)
    \/ \E p \in Procs : DatabaseStorage_Rollback(p)
    \/ \E p \in Procs, committed \in BOOLEAN : DatabaseStorage_CommitFails(p, committed)
    \/ \E o \in Owners, c \in Codes : DatabaseStorage_DeleteUserURLs(o, <<c>>)

SpecRelational == InitRelational /\ [][NextRelational]_vars

\* The File-Journal store on a machine that may lose power.
InitFile == Init /\ backend = "File"

NextCrash == FileNext \/ ReadNext \/ Writeback \/ PowerLoss

SpecCrash == InitFile /\ [][NextCrash]_vars

\* cmd/shortener/main.go started with FILE_STORAGE_PATH naming an empty file.
InitMain ==
    /\ backend = "Main"
    /\ urls = EmptyMap
    /\ journal = <<>>
    /\ synced = 0
    /\ memUrls = LoadAllToMemory(EmptyMap, <<>>)
    /\ proc = [p \in Procs |-> IdleProc]
    /\ firstRet = NoFirst
    /\ last = NoLast
    /\ NewURLService
    /\ mu = NewRWMutex
    /\ randGen = <<>>

NextMain ==
    \/ \E o \in Owners, u \in URLs, c \in Codes, out \in {"ok", "open", "sync"} :
          Main_CreateShortURL(o, u, c, out)
    \/ \E c \in Codes : Read_GetOriginalURL(c)
    \/ \E opened \in BOOLEAN : SaveAllFromMemory(opened)
    \/ Main_Restart

SpecMain == InitMain /\ [][NextMain]_vars

\* The storage methods called directly: originalURL is any Go string, the empty
\* string included (the handlers pass only strings that start with http:// or
\* https://).
AnyURLs == URLs \cup {""}

InitAny == Init /\ backend \in {"Memory", "File"}

NextAny ==
    \/ \E o \in Owners, u \in AnyURLs, c \in Codes : InMemoryStorage_CreateShortURL(o, u, c)
    \/ \E o \in Owners, b \in Batches : InMemoryStorage_DeleteUserURLs(o, b)
    \/ \E o \in Owners, u \in AnyURLs, c \in Codes, w \in BOOLEAN :
          FileStorage_CreateShortURL(o, u, c, w)
    \/ \E o \in Owners, b \in Batches : FileStorage_DeleteUserURLs(o, b)
    \/ NewFileStorage
    \/ ReadNext

SpecAny == InitAny /\ [][NextAny]_vars

\* A URLService over an InMemoryStorage in which o1 has shortened u1 as code 1
\* and o2 has shortened u2 as code 2.
InitService ==
    /\ backend = "Service"
    /\ urls = MapStore(MapStore(EmptyMap, 1, URLPair("", 1, "u1", "o1", FALSE)),
                       2, URLPair("", 2, "u2", "o2", FALSE))
    /\ journal = <<>>
    /\ synced = 0
    /\ memUrls = EmptyMap
    /\ proc = [p \in Procs |-> IdleProc]
    /\ firstRet = NoFirst
    /\ last = NoLast
    /\ NewURLService
    /\ mu = NewRWMutex
    /\ randGen = <<>>

RunningNext ==
    \/ \E o \in Owners, b \in ServiceBatches, done \in BOOLEAN, pick \in {"send", "done"} :
          URLService_DeleteURLs(o, b, done, pick)
    \/ deleteWorker_Receive
    \/ deleteWorker_Delete

NextService == RunningNext \/ URLService_Close \/ deleteWorker_Return

SpecService == InitService /\ [][NextService]_vars

\* The service behind DELETE /api/user/urls, with its worker.
NextDelete ==
    \/ \E user \in ContextUsers, body \in DeleteBodies, done \in BOOLEAN,
          pick \in {"send", "done"} : handleDeleteUserURLs(user, body, done, pick)
    \/ deleteWorker_Receive
    \/ deleteWorker_Delete

SpecDelete == InitService /\ [][NextDelete]_vars

\* The service while Close is never called; the scheduler runs the worker
\* goroutine whenever it can take a step.
SpecRunning ==
    /\ InitService
    /\ [][RunningNext]_vars
    /\ WF_vars(deleteWorker_Receive)
    /\ WF_vars(deleteWorker_Delete)

\* The File-Journal store with soft-delete, restarts and checkpoints.
NextCheckpoint ==
    \/ FileNext
    \/ ReadNext
    \/ \E opened \in BOOLEAN : File_SaveAllFromMemory(opened)

SpecCheckpoint == InitFile /\ [][NextCheckpoint]_vars

\* The File-Journal store's writes: creates whose append may fail, restarts
\* and checkpoints, and gets.
NextJournal ==
    \/ \E o \in Owners, u \in URLs, c \in Codes, w \in BOOLEAN :
          FileStorage_CreateShortURL(o, u, c, w)
    \/ NewFileStorage
    \/ \E opened \in BOOLEAN : File_SaveAllFromMemory(opened)
    \/ \E c \in Codes : Read_GetOriginalURL(c)

SpecJournal == InitFile /\ [][NextJournal]_vars

\* A store of each backend in which o1 has shortened u1 as code 1 and, in one
\* of the two starts, o2 has shortened u2 as code 2; then batches are deleted.
InitBatches ==
    /\ backend \in {"Memory", "File", "Relational"}
    /\ urls \in {MapStore(EmptyMap, 1, URLPair("uuid", 1, "u1", "o1", FALSE)),
                 MapStore(MapStore(EmptyMap, 1, URLPair("uuid", 1, "u1", "o1", FALSE)),
                          2, URLPair("uuid", 2, "u2", "o2", FALSE))}
    /\ journal = IF backend = "File" THEN [c \in DOMAIN urls |-> Encode(urls[c])]
                 ELSE <<>>
    /\ synced = 0
    /\ memUrls = EmptyMap
    /\ proc = [p \in Procs |-> IdleProc]
    /\ firstRet = NoFirst
    /\ last = NoLast
    /\ NewURLService
    /\ mu = NewRWMutex
    /\ randGen = <<>>

NextBatches ==
    \/ \E o \in Owners, b \in Batches : InMemoryStorage_DeleteUserURLs(o, b)
    \/ \E o \in Owners, b \in Batches : FileStorage_DeleteUserURLs(o, b)
    \/ \E o \in Owners, b \in Batches : DatabaseStorage_DeleteUserURLs(o, b)

SpecBatches == InitBatches /\ [][NextBatches]_vars

\* An InMemoryStorage in which o1 has shortened u1 again and again until every
\* code is taken: whatever generateShortID returns next is a code in use.
InitCollision ==
    /\ backend = "Memory"
    /\ urls = [c \in Codes |-> URLPair("", c, "u1", "o1", FALSE)]
    /\ journal = <<>>
    /\ synced = 0
    /\ memUrls = EmptyMap
    /\ proc = [p \in Procs |-> IdleProc]
    /\ firstRet = NoFirst
    /\ last = NoLast
    /\ NewURLService
    /\ mu = NewRWMutex
    /\ randGen = <<>>

NextCollision == MemoryNext \/ ReadNext

SpecCollision == InitCollision /\ [][NextCollision]_vars

\* A file found at FileStorage.filePath when the process starts: up to MaxLines
\* lines, each an encoded record of o1, a line that is not JSON, or an
\* over-long line.
FileLines ==
    {Encode(URLPair("uuid", c, u, "o1", FALSE)) : c \in {1, 2}, u \in URLs}
    \cup {BadJSON, OverLong}
Files == UNION {[1..n -> FileLines] : n \in 0..MaxLines}

InitReplay ==
    /\ backend = "File"
    /\ urls = EmptyMap
    /\ journal \in Files
    /\ synced = Len(journal)
    /\ memUrls = EmptyMap
    /\ proc = [p \in Procs |-> IdleProc]
    /\ firstRet = NoFirst
    /\ last = NoLast
    /\ NewURLService
    /\ mu = NewRWMutex
    /\ randGen = <<>>

NextReplay == NewFileStorage

SpecReplay == InitReplay /\ [][NextReplay]_vars

\* ================================================================ claims
Deleted == [url |-> "", err |-> "ErrURLDeleted"]
Found(originalURL) == [url |-> originalURL, err |-> "nil"]
CreateReturned == last.op = "create" /\ last.err \in {"nil", "ErrConflict"}
NotFound == [url |-> "", err |-> "nil"]

\* C1 as stated: after a create of u returns code c, as a fresh code or with
\* ErrConflict, GetOriginalURL(c) returns u.
C1_RoundTripAlways ==
    CreateReturned => GetOriginalURL(last.shortID) = Found(last.originalURL)

\* C1: after a create of u returns a fresh code c, GetOriginalURL(c) returns u;
\* after it returns c with ErrConflict, the record under c holds u and
\* GetOriginalURL(c) returns u, or ErrURLDeleted when that record is deleted.
C1_RoundTrip ==
    /\ last.op = "create" /\ last.err = "nil"
          => GetOriginalURL(last.shortID) = Found(last.originalURL)
    /\ last.op = "create" /\ last.err = "ErrConflict"
          => /\ last.shortID \in DOMAIN urls
             /\ urls[last.shortID].OriginalURL = last.originalURL
             /\ GetOriginalURL(last.shortID) =
                   IF urls[last.shortID].DeletedFlag
                   THEN Deleted ELSE Found(last.originalURL)

\* A create has just stored its record over a record of another URL.
C1_Witness ==
    /\ last.op = "create" /\ last.err = "nil"
    /\ backend = "File"
    /\ \E i \in DOMAIN journal :
          /\ journal[i].short_url = last.shortID
          /\ journal[i].original_url # last.originalURL
    /\ GetOriginalURL(last.shortID) = Found(last.originalURL)

\* C2 as stated: a create of a URL that a stored record already holds returns
\* that record's code with ErrConflict.
C2_SameCodeConflict ==
    [][(last'.op = "create" /\ last'.err # "error"
          /\ CodesWithURL(last'.originalURL) # {})
       => (last'.err = "ErrConflict"
             /\ last'.shortID \in CodesWithURL(last'.originalURL))]_vars

C4_OneRecordPerURL ==
    /\ \A u \in URLs : Cardinality(CodesWithURL(u)) <= 1
    /\ CreateReturned => CodesWithURL(last.originalURL) = {last.shortID}

\* C5: after DeleteUserURLs(o, shortIDs), every code of the batch whose record is
\* owned by o gets ErrURLDeleted from GetOriginalURL and is absent from
\* GetURLsByUserID(o).
C5_DeleteHides ==
    last.op = "delete" =>
        \A i \in DOMAIN last.shortIDs :
            LET c == last.shortIDs[i]
            IN (c \in DOMAIN urls /\ urls[c].UserID = last.userID)
                  => /\ GetOriginalURL(c) = Deleted
                     /\ \A pair \in GetURLsByUserID(last.userID) : pair.ShortURL # c

\* A delete of one code by its owner has returned.
C5_Witness ==
    /\ last.op = "delete" /\ Len(last.shortIDs) = 1
    /\ last.shortIDs[1] \in DOMAIN urls
    /\ urls[last.shortIDs[1]].UserID = last.userID
    /\ \E c \in DOMAIN urls : urls[c].UserID = last.userID /\ ~urls[c].DeletedFlag

\* C6: DeleteUserURLs(o2, shortIDs) leaves every record that o2 does not own as it
\* was: GetOriginalURL of its code and its owner's listing return what they did.
C6_OwnerOnly ==
    [][last'.op = "delete"
       => \A o \in Owners \ {last'.userID} :
             /\ GetURLsByUserID(o)' = GetURLsByUserID(o)
             /\ \A c \in DOMAIN urls :
                   urls[c].UserID = o
                      => /\ c \in DOMAIN urls' /\ urls'[c] = urls[c]
                         /\ GetOriginalURL(c)' = GetOriginalURL(c)]_vars

\* A delete named the code of a record of another owner, and it still resolves.
C6_Witness ==
    /\ last.op = "delete"
    /\ \E i \in DOMAIN last.shortIDs :
          LET c == last.shortIDs[i]
          IN /\ c \in DOMAIN urls
             /\ urls[c].UserID # last.userID
             /\ GetOriginalURL(c) = Found(urls[c].OriginalURL)

\* C7 as stated: no create, delete, get or list turns the DeletedFlag of a stored
\* record from true to false.
C7_DeletedMonotonic ==
    [][last'.op \in {"create", "delete", "get", "list"}
       => \A c \in DOMAIN urls :
             urls[c].DeletedFlag => c \in DOMAIN urls' /\ urls'[c].DeletedFlag]_vars

\* C8 as stated: after a restart from the journal, each code a create returned
\* (one journal line per successful create) resolves to the URL it was created with.
C8_RestartRoundTrip ==
    (backend = "File" /\ last.op = "restart")
       => \A i \in DOMAIN journal :
             GetOriginalURL(journal[i].short_url).url = journal[i].original_url

\* C9 as stated: after a checkpoint, reloading the journal yields every mapping
\* the store served before it.
C9_CheckpointKeeps ==
    (last.op = "checkpoint" /\ last.err = "nil")
       => LET reloaded == LoadAllToMemory(EmptyMap, journal)
          IN \A c \in DOMAIN urls :
                /\ c \in DOMAIN reloaded
                /\ reloaded[c].OriginalURL = urls[c].OriginalURL

\* C10 as stated: the record of a create that returned is on stable storage, so
\* the mappings served before a power loss are served after the replay.
C10_DurableBeforeReturn ==
    /\ [](CreateReturned =>
            \E i \in 1..synced :
               /\ journal[i].short_url = last.shortID
               /\ journal[i].original_url = last.originalURL)
    /\ [][last'.op = "crash"
          => \A c \in DOMAIN urls :
                /\ c \in DOMAIN urls'
                /\ urls'[c].OriginalURL = urls[c].OriginalURL]_vars

C12_ListExact ==
    \A o \in Owners :
        LET live == {c \in DOMAIN urls : urls[c].UserID = o /\ ~urls[c].DeletedFlag}
            list == GetURLsByUserID(o)
        IN /\ {pair.ShortURL : pair \in list} = live
           /\ Cardinality(list) = Cardinality(live)
           /\ \A pair \in list :
                 /\ pair.OriginalURL = urls[pair.ShortURL].OriginalURL
                 /\ pair.UserID = o
                 /\ ~pair.DeletedFlag

\* An owner's listing is not empty while the store also holds a deleted record
\* of that owner.
C12_Witness ==
    \E o \in Owners :
        /\ GetURLsByUserID(o) # {}
        /\ \E c \in DOMAIN urls : urls[c].UserID = o /\ urls[c].DeletedFlag

\* C13: DeleteUserURLs(o, shortIDs) returns nil and sets DeletedFlag on exactly the
\* stored records whose code is in the batch and whose owner is o, whatever else
\* the batch holds; codes without a record get none and every other record is
\* left as it was.
C13_MixedBatch ==
    [][last'.op = "delete"
       => /\ last'.err = "nil"
          /\ DOMAIN urls' = DOMAIN urls
          /\ \A c \in DOMAIN urls :
                urls'[c] =
                   IF urls[c].UserID = last'.userID
                      /\ \E i \in DOMAIN last'.shortIDs : last'.shortIDs[i] = c
                   THEN [urls[c] EXCEPT !.DeletedFlag = TRUE]
                   ELSE urls[c]]_vars

\* A delete of two codes has returned: one is a record of the caller, now
\* deleted, the other has no record or is a record of another owner.
C13_Witness ==
    /\ last.op = "delete" /\ Len(last.shortIDs) = 2
    /\ \E i, j \in DOMAIN last.shortIDs :
          /\ last.shortIDs[i] \in DOMAIN urls
          /\ urls[last.shortIDs[i]].UserID = last.userID
          /\ urls[last.shortIDs[i]].DeletedFlag
          /\ \/ last.shortIDs[j] \notin DOMAIN urls
             \/ urls[last.shortIDs[j]].UserID # last.userID

\* C19: a code that a create has returned is the key of a stored record, and no
\* create, delete, get or list removes a key from the store.
C19_NeverErased ==
    /\ [](CreateReturned => last.shortID \in DOMAIN urls)
    /\ [][last'.op \in {"create", "delete", "get", "list"}
          => DOMAIN urls \subseteq DOMAIN urls']_vars

\* A delete by its owner has flagged a stored record, which is still stored.
C19_Witness ==
    /\ last.op = "delete"
    /\ \E i \in DOMAIN last.shortIDs :
          /\ last.shortIDs[i] \in DOMAIN urls
          /\ urls[last.shortIDs[i]].UserID = last.userID
          /\ urls[last.shortIDs[i]].DeletedFlag

\* C20 as stated: no create, delete, get or list changes the OriginalURL or the
\* UserID of a record that is stored under a code.
C20_RecordFrame ==
    [][last'.op \in {"create", "delete", "get", "list"}
       => \A c \in DOMAIN urls :
             /\ c \in DOMAIN urls'
             /\ urls'[c].OriginalURL = urls[c].OriginalURL
             /\ urls'[c].UserID = urls[c].UserID]_vars

\* The tasks accepted and not yet passed to the store, oldest first.
Pending == (IF worker.pc = "task" THEN <<worker.task>> ELSE <<>>) \o deleteCh

\* C14: deleteCh never holds more tasks than its capacity, however many callers
\* send and however slowly the worker receives.
C14_BoundedQueue == Len(deleteCh) <= DeleteChCap

\* The buffer is full while the worker still holds a task.
C14_Witness == Len(deleteCh) = DeleteChCap /\ worker.pc = "task"

\* C15 as stated: a DeleteURLs call that returns while the buffer has room
\* returns nil with its task appended; it returns the context's error, with
\* nothing appended, only while the buffer is full.
C15_EnqueueSemantics ==
    [][last'.op = "DeleteURLs"
       => IF CanSend(deleteCh)
          THEN last'.err = "nil" /\ Len(deleteCh') = Len(deleteCh) + 1
          ELSE last'.err = "ctx.Err" /\ deleteCh' = deleteCh]_vars

\* C16 as stated: once closeCh is closed the worker takes no task from deleteCh to
\* pass it to the store, and a worker that has returned stays returned.
C16_StoppedWorker ==
    /\ [][(closed /\ worker.pc = "select") => worker'.pc # "task"]_vars
    /\ [][worker.pc = "exited" => worker'.pc = "exited"]_vars

\* C17: while Close is never called and the worker is scheduled fairly, the n-th
\* task DeleteURLs accepted is in time the n-th task passed to DeleteUserURLs,
\* whatever happens to the caller's context after the call returned.
C17_EventuallyApplied ==
    \A n \in 1..MaxTasks : (accepted >= n) ~> (applied >= n)

\* Every accepted task has been passed to the store and record 1 is deleted.
C17_Witness ==
    /\ accepted = MaxTasks /\ applied = accepted
    /\ urls[1].DeletedFlag

\* C18: the tasks in the buffer and in the worker's hand are exactly the accepted
\* tasks not yet passed to the store, each once and in order; a call of
\* DeleteUserURLs passes the one task in the worker's hand and takes it away.
C18_AtMostOnce ==
    /\ [](/\ Len(Pending) = accepted - applied
          /\ \A i \in DOMAIN Pending : Pending[i].id = applied + i)
    /\ [][applied' # applied
          => /\ applied' = applied + 1
             /\ worker.pc = "task" /\ worker.task.id = applied'
             /\ urls' = DeleteLoop(urls, worker.task.userID, worker.task.shortIDs)]_vars

\* The worker holds a task after it has passed one to the store, with another waiting.
C18_Witness == applied >= 1 /\ worker.pc = "task" /\ Len(deleteCh) >= 1

\* ------------------------------------------------ claims on the handlers
\* The answer in last is that of a shortening request that passed validation.
Shortened == last.op \in {"handlePost", "handleAPIShorten"} /\ last.status # 400

\* C21 as stated: a GET /{shortID} whose short ID has no record in the store is
\* answered with 400 Bad Request, never with a redirect.
C21_MissingIs400 ==
    last.op = "handleGet" /\ last.shortID \notin DOMAIN urls => last.status = 400

\* A URL in the sense of the claim: not empty, and starting with http:// or https://.
ValidURL(u) == \E n \in 1..Len(u) : SubSeq(u, 1, n) \in {URL_HTTP, URL_HTTPS}

\* C22: a POST / or POST /api/shorten whose URL is empty or starts with neither
\* http:// nor https://, or whose JSON is malformed, is answered with 400 and
\* leaves the store as it was.
C22_InvalidRejected ==
    [][last'.op \in {"handlePost", "handleAPIShorten"} /\ ~ValidURL(last'.originalURL)
       => last'.status = 400 /\ urls' = urls]_vars

\* A malformed JSON body has been answered with 400 by a store that holds a record.
C22_Witness ==
    /\ last.op = "handleAPIShorten" /\ last.status = 400 /\ last.originalURL = <<>>
    /\ \E c \in DOMAIN urls : ~urls[c].DeletedFlag

\* C23 as stated: a POST / whose body starts with http:// or https:// is answered
\* with 201 and BaseURL/code, and the store then maps code to the posted URL.
C23_PostCreates ==
    last.op = "handlePost" /\ ValidURL(last.originalURL)
       => /\ last.status = 201
          /\ \E c \in DOMAIN urls :
                last.body = ShortURL(c) /\ urls[c].OriginalURL = last.originalURL

\* C23: such a POST / is answered with 201 and BaseURL/code when the store
\* allocated code, with 409 and BaseURL/code when the store already held the URL
\* under code, and in both cases the store maps code to the posted URL; when the
\* store returned another error the answer is 500 and no code is given.
C23_PostAnswers ==
    last.op = "handlePost" /\ ValidURL(last.originalURL)
       => /\ last.status \in {201, 409, 500}
          /\ last.status = 201 <=> last.storage.err = "nil"
          /\ last.status = 409 <=> last.storage.err = "ErrConflict"
          /\ last.status \in {201, 409}
                => /\ last.body = ShortURL(last.storage.shortID)
                   /\ last.storage.shortID \in DOMAIN urls
                   /\ urls[last.storage.shortID].OriginalURL = last.originalURL
          /\ last.status = 500 => last.body = FailedToCreate

\* A POST / of a URL the relational store already held has been answered with 409.
C23_Witness ==
    /\ last.op = "handlePost" /\ last.status = 409
    /\ last.storage.shortID # last.candidateShortID

\* C24 as stated: a GET /{shortID} whose short ID has a non-deleted record is
\* answered with 307 and a Location equal to the record's original URL.
C24_RedirectExact ==
    last.op = "handleGet" /\ last.shortID \in DOMAIN urls
       /\ ~urls[last.shortID].DeletedFlag
       => last.status = 307 /\ last.Location = urls[last.shortID].OriginalURL

\* C24: such a GET is answered with 307 and a Location that is the record's
\* original URL with every non-ASCII byte written as %XX (the original URL
\* itself when it is ASCII), unless the relational store's query failed (400).
C24_RedirectEscaped ==
    last.op = "handleGet" /\ last.shortID \in DOMAIN urls
       /\ ~urls[last.shortID].DeletedFlag
       => \/ last.status = 400 /\ backend = "Relational"
          \/ /\ last.status = 307
             /\ last.Location = hexEscapeNonASCII(urls[last.shortID].OriginalURL)
             /\ (\A i \in DOMAIN urls[last.shortID].OriginalURL :
                    urls[last.shortID].OriginalURL[i] \notin NonASCII)
                   => last.Location = urls[last.shortID].OriginalURL

\* A record whose URL has a non-ASCII character has been redirected to.
C24_Witness ==
    /\ last.op = "handleGet" /\ last.status = 307
    /\ last.shortID \in DOMAIN urls
    /\ last.Location # urls[last.shortID].OriginalURL

\* C28: URLService.CreateShortURL passes the store's success on unchanged, turns
\* the store's conflict into the same code with a service conflict carrying that
\* code, and passes any other error on with an empty code; the store has been
\* called once: it holds what one call left, unchanged when the call failed.
C28_FacadeMaps ==
    [][last'.op \in {"handlePost", "handleAPIShorten"} /\ last'.status # 400
       => LET st == last'.storage
              sv == last'.service
              pair == URLPair("", last'.candidateShortID, last'.originalURL,
                              last'.userID, FALSE)
          IN /\ st.err = "nil"
                   => /\ sv = ServiceResult(st.shortID, "nil", 0)
                      /\ st.shortID = last'.candidateShortID
                      /\ urls' = MapStore(urls, st.shortID, pair)
             /\ st.err = "ErrConflict"
                   => /\ sv = ServiceResult(st.shortID, "service.ErrConflict", st.shortID)
                      /\ st.shortID \in DOMAIN urls
                      /\ urls[st.shortID].OriginalURL = last'.originalURL
                      /\ urls' = urls
             /\ st.err \notin {"nil", "ErrConflict"}
                   => /\ sv = ServiceResult(0, st.err, 0)
                      /\ urls' = urls]_vars

\* The service has returned a conflict for a URL stored by another owner.
C28_Witness ==
    /\ Shortened /\ last.service.err = "service.ErrConflict"
    /\ urls[last.service.shortID].UserID # last.userID

\* The 62-symbol alphanumeric alphabet.
Alphanumeric ==
    {"a", "b", "c", "d", "e", "f", "g", "h", "i", "j", "k", "l", "m",
     "n", "o", "p", "q", "r", "s", "t", "u", "v", "w", "x", "y", "z",
     "A", "B", "C", "D", "E", "F", "G", "H", "I", "J", "K", "L", "M",
     "N", "O", "P", "Q", "R", "S", "T", "U", "V", "W", "X", "Y", "Z",
     "0", "1", "2", "3", "4", "5", "6", "7", "8", "9"}

\* C25: every code CreateShortURL returns as a fresh allocation has exactly 8
\* symbols, each of the 62-symbol alphanumeric alphabet.
C25_CodeShape ==
    last.op = "create" /\ last.err = "nil"
       => /\ Len(last.shortID) = 8
          /\ \A i \in 1..Len(last.shortID) : last.shortID[i] \in Alphanumeric
          /\ Cardinality(Alphanumeric) = 62
          /\ last.shortID \in DOMAIN urls

\* A code that ends in the last symbol of letterBytes and starts with its first
\* has been returned.
C25_Witness ==
    /\ last.op = "create" /\ last.err = "nil"
    /\ last.shortID[1] = "a" /\ last.shortID[8] = "9"

\* The cookie carries an ID and the HMAC of that ID, and nothing else.
CorrectlySigned(cookie) ==
    /\ cookie.present
    /\ \E id \in CookieIDs :
          cookie.Value = (IF id = "" THEN <<>> ELSE <<id>>) \o <<"|", sign(id)>>

\* The ID a cookie claims: what stands before its first bar.
ClaimedID(cookie) ==
    IF cookie.Value = <<>> \/ cookie.Value[1] = "|" THEN "" ELSE cookie.Value[1]

\* C26 as stated: a request without a correctly signed cookie is handled under a
\* freshly generated ID, not the one its cookie claims, and is given a cookie
\* signed for the fresh ID; a request with a correctly signed cookie is handled
\* under the cookie's ID and is given no cookie; the ID is never empty.
C26_CookieIdentity ==
    last.op = "Auth"
       => /\ ~CorrectlySigned(last.cookie)
                => /\ last.userID \in NewUUIDs
                   /\ last.userID # ClaimedID(last.cookie)
                   /\ last.SetCookie =
                         [present |-> TRUE,
                          Value |-> <<last.userID, "|", sign(last.userID)>>]
          /\ CorrectlySigned(last.cookie)
                => /\ last.userID = ClaimedID(last.cookie)
                   /\ last.SetCookie = NoCookie
          /\ last.userID # ""

\* The same without its last sentence (the ID may be empty).
C26_CookieIdentity_MayBeEmpty ==
    last.op = "Auth"
       => /\ ~CorrectlySigned(last.cookie)
                => /\ last.userID \in NewUUIDs
                   /\ last.userID # ClaimedID(last.cookie)
                   /\ last.SetCookie =
                         [present |-> TRUE,
                          Value |-> <<last.userID, "|", sign(last.userID)>>]
          /\ CorrectlySigned(last.cookie)
                => /\ last.userID = ClaimedID(last.cookie)
                   /\ last.SetCookie = NoCookie

\* Goroutine p is inside a writer's (create, delete) critical section.
Writing(p) == proc[p].pc \in {"locked", "appended", "return"}

\* Goroutine p is inside a reader's (get, list) critical section.
Reading(p) == proc[p].pc = "rlocked"

\* C27: while a create or a delete is inside its critical section no other
\* operation on the store is inside its own; every change of the journal or of
\* the index is a step of the one writer inside, and between a create's journal
\* append and its index update no other goroutine is inside or takes a step on
\* the journal or the index.
C27_WritersExclude ==
    /\ [](\A p, q \in Procs :
             p # q /\ Writing(p) => ~Writing(q) /\ ~Reading(q))
    /\ [][journal' # journal \/ urls' # urls
          => \E p \in Procs :
                /\ Writing(p) /\ proc'[p] # proc[p]
                /\ \A q \in Procs \ {p} : ~Writing(q) /\ ~Reading(q)]_vars
    /\ [][\A p \in Procs :
             proc[p].pc = "appended" /\ proc'[p].pc = "appended"
                => journal' = journal /\ urls' = urls]_vars

\* Two readers are inside together, on a store that holds a record.
C27_Witness ==
    /\ \E p, q \in Procs : p # q /\ Reading(p) /\ Reading(q)
    /\ DOMAIN urls # {}

\* C29: when InMemoryStorage.CreateShortURL(o, u) generates a code c that already
\* keys a record, it returns (c, nil), the record under c becomes
\* {c, u, o, not deleted}, and nothing else is stored or changed (no second code
\* is tried).
C29_CollisionOverwrites ==
    [][\A o \in Owners, u \in URLs, c \in Codes :
          InMemoryStorage_CreateShortURL(o, u, c) /\ c \in DOMAIN urls
             => /\ last'.op = "create" /\ last'.shortID = c /\ last'.err = "nil"
                /\ urls'[c] = [UUID |-> "", ShortURL |-> c, OriginalURL |-> u,
                               UserID |-> o, DeletedFlag |-> FALSE]
                /\ DOMAIN urls' = DOMAIN urls
                /\ \A d \in DOMAIN urls \ {c} : urls'[d] = urls[d]]_vars

\* A create has returned a code whose record, first o1's u1, is now o2's u2.
C29_Witness ==
    /\ last.op = "create" /\ last.err = "nil" /\ last.originalURL = "u2"
    /\ urls[last.shortID].OriginalURL = "u2"
    /\ urls[last.shortID].UserID = "o2"
    /\ \E c \in DOMAIN urls : urls[c].DeletedFlag

\* The positions of the lines of the journal that are records carrying code c.
RecordsOf(c) ==
    {i \in DOMAIN journal :
        "short_url" \in DOMAIN journal[i] /\ journal[i].short_url = c}

\* C30: after a start that replayed the journal, a code is in the index exactly
\* when some record line carries it, and the index holds under it the contents
\* of the last such line; lines that are not JSON count for nothing, wherever
\* they stand.
C30_LastWriteWins ==
    last.op = "restart" /\ last.err = "nil"
       => /\ DOMAIN urls = {c \in {1, 2} : RecordsOf(c) # {}}
          /\ \A c \in DOMAIN urls :
                LET i == CHOOSE k \in RecordsOf(c) : \A j \in RecordsOf(c) : j <= k
                IN urls[c] = [UUID |-> journal[i].id, ShortURL |-> c,
                              OriginalURL |-> journal[i].original_url,
                              UserID |-> journal[i].user_id, DeletedFlag |-> FALSE]

\* The journal held a record of code 1, a line that is not JSON, and a later
\* record of code 1 with another URL; the start loaded the later one.
C30_Witness ==
    /\ last.op = "restart" /\ last.err = "nil"
    /\ Len(journal) = 3 /\ journal[2] = BadJSON
    /\ RecordsOf(1) = {1, 3}
    /\ journal[1].original_url = "u1"
    /\ urls[1].OriginalURL = "u2"

\* ----------------------------------- claims on durability and the frame
\* C31 as stated: a soft-delete that a checkpoint wrote to the journal is in
\* effect after the restart: when the journal was rewritten after the delete
\* and the process then restarts, a get of the deleted code answers Deleted.
C31_CheckpointedDeleteSurvives ==
    [][(last.op = "checkpoint" /\ last.err = "nil" /\ last'.op = "restart")
       => \A c \in DOMAIN urls :
             urls[c].DeletedFlag => MapGetOriginalURL(urls', c) = Deleted]_vars

\* body holds the short URL of code c as a contiguous part.
Carries(body, c) ==
    \E i \in 1..Len(body) :
       i + 2 <= Len(body) /\ SubSeq(body, i, i + 2) = ShortURL(c)

\* C32: a POST / or POST /api/shorten that reached the service is answered with
\* 201 exactly when the service returned a code without error and with 409
\* exactly when it returned a conflict, and the body then carries BaseURL/code
\* for the code the service returned; on any other error the answer is 500 and
\* the body carries no short URL.
C32_StatusFollowsService ==
    Shortened
       => /\ last.status = 201 <=> last.service.err = "nil"
          /\ last.status = 409 <=> last.service.err = "service.ErrConflict"
          /\ last.status \in {201, 409}
                => /\ Carries(last.body, last.service.shortID)
                   /\ \A c \in Codes \ {last.service.shortID} : ~Carries(last.body, c)
          /\ last.service.err \notin {"nil", "service.ErrConflict"}
                => /\ last.status = 500
                   /\ \A c \in Codes \cup {0} : ~Carries(last.body, c)

\* A POST /api/shorten of a URL the store already held has been answered with
\* 409 and the code that was not this request's candidate.
C32_Witness ==
    /\ last.op = "handleAPIShorten" /\ last.status = 409
    /\ last.service.shortID # last.candidateShortID
    /\ Carries(last.body, last.service.shortID)

\* C33: a GET /{shortID} of a code whose record is soft-deleted is answered
\* with 410 Gone whenever the store answered the lookup, and never with a
\* redirect; a code that has no record is never answered with 410.
C33_DeletedIsGone ==
    last.op = "handleGet"
       => LET known == last.shortID \in DOMAIN urls
          IN /\ (known /\ urls[last.shortID].DeletedFlag)
                   => /\ ~last.failed => last.status = 410
                      /\ last.status # 307
                      /\ "Location" \notin DOMAIN last
             /\ (~known /\ ~last.failed) => last.status # 410

\* A soft-deleted record of the relational store has been answered with 410
\* while another code has no record.
C33_Witness ==
    /\ backend = "Relational"
    /\ last.op = "handleGet" /\ last.status = 410
    /\ last.shortID \in DOMAIN urls /\ urls[last.shortID].DeletedFlag
    /\ \E c \in Codes : c \notin DOMAIN urls

\* C34: DELETE /api/user/urls answers 401 and enqueues nothing when the context
\* has no owner or an empty one; for an owner it answers 202 with nothing
\* enqueued on an empty list, 202 with exactly the request's task appended to
\* the queue when the send went through, and 500 with nothing enqueued when
\* the service returned an error; in every case the store is as it was when
\* the answer is written: the delete is applied later, by the worker.
C34_AcceptedBeforeApplied ==
    [][last'.op = "handleDeleteUserURLs"
       => LET user == last'.user
              body == last'.body
              owner == user.ok /\ user.userID # ""
          IN /\ urls' = urls /\ applied' = applied
             /\ ~owner => last'.status = 401 /\ deleteCh' = deleteCh
             /\ (owner /\ body.wellFormed /\ body.shortIDs = <<>>)
                   => last'.status = 202 /\ deleteCh' = deleteCh
             /\ (owner /\ body.wellFormed /\ body.shortIDs # <<>>)
                   => \/ /\ last'.status = 202 /\ last'.err = "nil"
                         /\ Len(deleteCh') = Len(deleteCh) + 1
                         /\ SubSeq(deleteCh', 1, Len(deleteCh)) = deleteCh
                         /\ deleteCh'[Len(deleteCh')].userID = user.userID
                         /\ deleteCh'[Len(deleteCh')].shortIDs = body.shortIDs
                      \/ /\ last'.status = 500 /\ last'.err # "nil"
                         /\ deleteCh' = deleteCh
             /\ last'.status = 202
                   => owner /\ body.wellFormed]_vars

\* o1's request to delete its code 1 has been answered with 202 and waits in
\* the queue, and a get of code 1 still returns the URL.
C34_Witness ==
    /\ last.op = "handleDeleteUserURLs" /\ last.status = 202
    /\ last.user.userID = "o1" /\ last.body.shortIDs = <<1>>
    /\ deleteCh # <<>> /\ deleteCh[Len(deleteCh)].shortIDs = <<1>>
    /\ MapGetOriginalURL(urls, 1) = Found("u1")

\* A step of a create that is on its conflict branch: the insert that did
\* nothing, the select, the commit.
ConflictStep ==
    \E p \in Procs :
       \/ proc[p].pc = "idle" /\ proc'[p].pc = "conflict"
       \/ proc[p].pc \in {"conflict", "selected"} /\ proc'[p] # proc[p]

\* C35: on the relational store no step of a create that ends in Conflict
\* changes a row; when it returns, the existing record is as it was, is listed
\* for no owner but its own, and a delete of its code by any other owner
\* changes nothing.
C35_ConflictKeepsRow ==
    [][/\ ConflictStep => urls' = urls
       /\ (last'.op = "create" /\ last'.err = "ErrConflict")
             => LET c == last'.shortID
                IN /\ c \in DOMAIN urls /\ urls'[c] = urls[c]
                   /\ \A o \in Owners \ {urls[c].UserID} :
                         /\ \A pair \in DatabaseStorage_GetURLsByUserID(urls', o) :
                               pair.ShortURL # c
                         /\ DatabaseStorage_Update(urls', o, <<c>>) = urls'
       /\ (last'.op = "delete"
             /\ \A i \in DOMAIN last'.shortIDs :
                   last'.shortIDs[i] \in DOMAIN urls
                      => urls[last'.shortIDs[i]].UserID # last'.userID)
             => urls' = urls]_vars

\* A create has returned Conflict with the code of a soft-deleted record, which
\* is still soft-deleted, while another caller is in a transaction.
C35_Witness ==
    /\ backend = "Relational"
    /\ last.op = "create" /\ last.err = "ErrConflict"
    /\ last.shortID \in DOMAIN urls /\ urls[last.shortID].DeletedFlag
    /\ \E p \in Procs : proc[p].pc # "idle"

\* The create whose return is the step has failed with an error that is not a
\* conflict.
CreateFailed == last'.op = "create" /\ last'.err \notin {"nil", "ErrConflict"}

\* C36 as stated: a create on the relational store that returns an error other
\* than Conflict, a failed commit included, leaves the table as it was.
C36_ErrorLeavesTable ==
    [][CreateFailed => urls' = urls]_vars

\* C36: a create that returns an error from the insert, the row count or the
\* read-back leaves the table as it was; one whose Commit returned the error
\* leaves it as it was or with exactly the row the call inserted, under a code
\* that was free, and every other row as it was.
C36_ErrorRollsBackBeforeCommit ==
    [][CreateFailed
       => \/ urls' = urls
          \/ /\ last'.err = "commit failed"
             /\ \E p \in Procs :
                   /\ proc[p].pc = "inserted" /\ proc'[p] = IdleProc
                   /\ proc[p].candidateShortID \notin DOMAIN urls
                   /\ proc[p].originalURL = last'.originalURL
                   /\ urls' = MapStore(urls, proc[p].candidateShortID,
                                       URLPair("", proc[p].candidateShortID,
                                               proc[p].originalURL, proc[p].userID,
                                               FALSE))]_vars

\* A create has returned an error after its insert was rolled back (the table
\* is empty, so the call was on neither the conflict branch nor a taken code),
\* while another caller holds an uncommitted row.
C36_Witness ==
    /\ backend = "Relational"
    /\ last.op = "create" /\ last.err = "error"
    /\ urls = EmptyMap
    /\ \E p \in Procs : proc[p].pc = "inserted"

\* C37: on the File-Journal store a create whose append failed returns the
\* error with the empty code and leaves the index and the file as they were,
\* and every record of the index has a line in the journal with its code,
\* its URL and its owner.
C37_IndexedOnlyIfJournaled ==
    /\ [][(backend = "File" /\ last'.op = "create" /\ last'.err # "nil")
          => last'.shortID = 0 /\ urls' = urls /\ journal' = journal]_vars
    /\ [](backend = "File"
            => \A c \in DOMAIN urls :
                  \E i \in DOMAIN journal :
                     /\ journal[i].short_url = c
                     /\ journal[i].original_url = urls[c].OriginalURL
                     /\ journal[i].user_id = urls[c].UserID)

\* A create has failed on its append in a store that holds a record, and the
\* code the failed call drew does not resolve.
C37_Witness ==
    /\ backend = "File"
    /\ last.op = "create" /\ last.err = "error" /\ last.shortID = 0
    /\ urls # EmptyMap
    /\ \E c \in Codes : c \notin DOMAIN urls

\* C38: on every backend a delete of a batch that is applied again changes
\* nothing (as the next step, and computed on the state the first left), and
\* a delete commutes with every other delete: applying another owner's or the
\* same owner's batch after it leaves what applying it after that batch would.
C38_IdempotentAndCommuting ==
    [][last'.op = "delete"
       => LET o == last'.userID
              b == last'.shortIDs
          IN /\ DeleteUserURLs(urls', o, b) = urls'
             /\ (last.op = "delete" /\ last.userID = o /\ last.shortIDs = b)
                   => urls' = urls
             /\ journal' = journal
             /\ \A o2 \in Owners, b2 \in Batches :
                   DeleteUserURLs(urls', o2, b2)
                      = DeleteUserURLs(DeleteUserURLs(urls, o2, b2), o, b)]_vars

\* A batch holding o1's code and o2's code has been applied for o1: code 1 is
\* deleted and code 2 is not.
C38_Witness ==
    /\ last.op = "delete" /\ last.userID = "o1" /\ last.shortIDs = <<1, 2>>
    /\ DOMAIN urls = {1, 2}
    /\ urls[1].DeletedFlag /\ ~urls[2].DeletedFlag
====
